---- MODULE Spec2Model ----
(***************************************************************************)
(* A model of comtypes/_vtbl.py: the COMObject core (reference counting,   *)
(* the live-instance registry, the hosting server's lock count, query by   *)
(* identity), the interface table builder, the method resolver and the     *)
(* call adapter.                                                           *)
(***************************************************************************)
EXTENDS Integers, Sequences, FiniteSets, TLC

\* ------------------------------------------------------------------ bounds
NumThreads == 2
NumObjects == 1
MaxCalls == 3

Threads == 1..NumThreads
Objects == 1..NumObjects

\* ------------------------------------------------------- result codes
S_OK == 0
S_FALSE == 1
E_NOTIMPL == -2147467263
E_NOINTERFACE == -2147467262
E_FAIL == -2147467259
E_INVALIDARG == -2147024809

\* Markers of the model: no call has returned yet, nothing was written.
NoResult == "none"
Unwritten == "unwritten"
GUID_NULL == "00000000-0000-0000-0000-000000000000"

\* --------------------------------------------------------------- names
\* Identifiers are sequences of characters, so that lower(), slicing and
\* concatenation are computed as Python computes them.
N_IUnknown == <<"I", "U", "n", "k", "n", "o", "w", "n">>
N_ISupportErrorInfo == <<"I", "S", "u", "p", "p", "o", "r", "t", "E", "r", "r", "o", "r", "I", "n", "f", "o">>
N_IPersist == <<"I", "P", "e", "r", "s", "i", "s", "t">>
N_IProvideClassInfo == <<"I", "P", "r", "o", "v", "i", "d", "e", "C", "l", "a", "s", "s", "I", "n", "f", "o">>
N_IProvideClassInfo2 == <<"I", "P", "r", "o", "v", "i", "d", "e", "C", "l", "a", "s", "s", "I", "n", "f", "o", "2">>
N_IDispatch == <<"I", "D", "i", "s", "p", "a", "t", "c", "h">>
N_ICalc == <<"I", "C", "a", "l", "c">>
N_ICalc2 == <<"I", "C", "a", "l", "c", "2">>
N_QueryInterface == <<"Q", "u", "e", "r", "y", "I", "n", "t", "e", "r", "f", "a", "c", "e">>
N_AddRef == <<"A", "d", "d", "R", "e", "f">>
N_Release == <<"R", "e", "l", "e", "a", "s", "e">>
N_InterfaceSupportsErrorInfo == <<"I", "n", "t", "e", "r", "f", "a", "c", "e", "S", "u", "p", "p", "o", "r", "t", "s", "E", "r", "r", "o", "r", "I", "n", "f", "o">>
N_GetClassID == <<"G", "e", "t", "C", "l", "a", "s", "s", "I", "D">>
N_GetClassInfo == <<"G", "e", "t", "C", "l", "a", "s", "s", "I", "n", "f", "o">>
N_GetGUID == <<"G", "e", "t", "G", "U", "I", "D">>
N_GetTypeInfoCount == <<"G", "e", "t", "T", "y", "p", "e", "I", "n", "f", "o", "C", "o", "u", "n", "t">>
N_GetTypeInfo == <<"G", "e", "t", "T", "y", "p", "e", "I", "n", "f", "o">>
N_GetIDsOfNames == <<"G", "e", "t", "I", "D", "s", "O", "f", "N", "a", "m", "e", "s">>
N_Invoke == <<"I", "n", "v", "o", "k", "e">>
N_Add == <<"A", "d", "d">>
N_Foo == <<"F", "o", "o">>
N_Swap == <<"S", "w", "a", "p">>
N_Neg == <<"N", "e", "g">>
N_DTestDispServer == <<"D", "T", "e", "s", "t", "D", "i", "s", "p", "S", "e", "r", "v", "e", "r">>
N_eval == <<"e", "v", "a", "l">>
N_eval2 == <<"e", "v", "a", "l", "2">>
N_id == <<"i", "d">>
N_name == <<"n", "a", "m", "e">>
N_SetName == <<"S", "e", "t", "N", "a", "m", "e">>
N_sEtNaMe == <<"s", "E", "t", "N", "a", "M", "e">>
N_DTestDispServerEvents == N_DTestDispServer \o <<"E", "v", "e", "n", "t", "s">>
N_EvalStarted == <<"E", "v", "a", "l", "S", "t", "a", "r", "t", "e", "d">>
N_EvalCompleted == <<"E", "v", "a", "l", "C", "o", "m", "p", "l", "e", "t", "e", "d">>
N_get == <<"_", "g", "e", "t", "_">>
N_set == <<"_", "s", "e", "t", "_">>
N_setref == <<"_", "s", "e", "t", "r", "e", "f", "_">>
Underscore == <<"_">>

UpperCase == <<"A", "B", "C", "D", "E", "F", "G", "H", "I", "J", "K", "L", "M",
               "N", "O", "P", "Q", "R", "S", "T", "U", "V", "W", "X", "Y", "Z">>
LowerCase == <<"a", "b", "c", "d", "e", "f", "g", "h", "i", "j", "k", "l", "m",
               "n", "o", "p", "q", "r", "s", "t", "u", "v", "w", "x", "y", "z">>

\* str.lower(), character by character.
LowerChar(c) ==
  IF \E i \in 1..Len(UpperCase) : UpperCase[i] = c
    THEN LowerCase[CHOOSE i \in 1..Len(UpperCase) : UpperCase[i] = c]
    ELSE c

Lower(s) == [i \in 1..Len(s) |-> LowerChar(s[i])]

\* ------------------------------------------------- interface descriptors
\* Direction flags of a parameter, as _encode_idl sums them.
F_IN == 1
F_OUT == 2
\* Flags carry further bits the adapter does not look at: 8 marks the return
\* value.

\* A method specification made by STDMETHOD: no parameter flags.
STDMETHOD(name, argtypes) ==
  [name |-> name, restype |-> "HRESULT", argtypes |-> argtypes,
   has_paramflags |-> FALSE, paramflags |-> <<>>, idlflags |-> {}]

\* A method specification made by COMMETHOD: one flag per parameter.
COMMETHOD(idlflags, name, argtypes, paramflags) ==
  [name |-> name, restype |-> "HRESULT", argtypes |-> argtypes,
   has_paramflags |-> TRUE, paramflags |-> paramflags, idlflags |-> idlflags]

\* An interface class; has_disp: whether it has a _disp_methods_ attribute.
ItfDesc(name, iid, base, methods) ==
  [name |-> name, iid |-> iid, base |-> base, methods |-> methods,
   case_insensitive |-> FALSE, has_disp |-> FALSE, disp_methods |-> <<>>]

\* Invocation kinds of IDispatch::Invoke.
DISPATCH_METHOD == 1
DISPATCH_PROPERTYGET == 2
DISPATCH_PROPERTYPUT == 4
DISPATCH_PROPERTYPUTREF == 8

\* Members of a dispinterface: idlflags[0] is the member id, the rest are
\* names; argspec has the direction names of each parameter.
DISPMETHOD(dispid, idlflags, has_restype, name, argspec) ==
  [what |-> "DISPMETHOD", name |-> name, dispid |-> dispid, idlflags |-> idlflags,
   has_restype |-> has_restype, argspec |-> argspec]

DISPPROPERTY(dispid, idlflags, has_restype, name) ==
  [what |-> "DISPPROPERTY", name |-> name, dispid |-> dispid, idlflags |-> idlflags,
   has_restype |-> has_restype, argspec |-> <<>>]

\* A dispinterface: no _methods_ of its own, and _disp_methods_.
DispItfDesc(name, iid, base, disp_methods) ==
  [name |-> name, iid |-> iid, base |-> base, methods |-> <<>>,
   case_insensitive |-> FALSE, has_disp |-> TRUE, disp_methods |-> disp_methods]

IUnknown ==
  ItfDesc(N_IUnknown, "IID_IUnknown", "object",
    << STDMETHOD(N_QueryInterface, <<"POINTER(GUID)", "POINTER(c_void_p)">>),
       STDMETHOD(N_AddRef, <<>>),
       STDMETHOD(N_Release, <<>>) >>)

ISupportErrorInfo ==
  ItfDesc(N_ISupportErrorInfo, "IID_ISupportErrorInfo", "IUnknown",
    << COMMETHOD({}, N_InterfaceSupportsErrorInfo, <<"POINTER(GUID)">>, <<F_IN>>) >>)

IPersist ==
  ItfDesc(N_IPersist, "IID_IPersist", "IUnknown",
    << COMMETHOD({}, N_GetClassID, <<"POINTER(GUID)">>, <<F_OUT>>) >>)

IProvideClassInfo ==
  ItfDesc(N_IProvideClassInfo, "IID_IProvideClassInfo", "IUnknown",
    << COMMETHOD({}, N_GetClassInfo, <<"POINTER(POINTER(ITypeInfo))">>, <<F_OUT>>) >>)

IProvideClassInfo2 ==
  ItfDesc(N_IProvideClassInfo2, "IID_IProvideClassInfo2", "IProvideClassInfo",
    << COMMETHOD({}, N_GetGUID, <<"DWORD", "POINTER(GUID)">>,
                 <<F_IN, F_OUT + 8>>) >>)

IDispatch ==
  ItfDesc(N_IDispatch, "IID_IDispatch", "IUnknown",
    << COMMETHOD({}, N_GetTypeInfoCount, <<"POINTER(UINT)">>, <<F_OUT>>),
       COMMETHOD({}, N_GetTypeInfo, <<"UINT", "LCID", "POINTER(c_void_p)">>,
                 <<F_IN, F_IN, F_OUT>>),
       STDMETHOD(N_GetIDsOfNames,
                 <<"POINTER(IID)", "POINTER(c_wchar_p)", "UINT", "LCID", "POINTER(DISPID)">>),
       STDMETHOD(N_Invoke,
                 <<"DISPID", "POINTER(IID)", "LCID", "WORD", "POINTER(DISPPARAMS)",
                   "POINTER(VARIANT)", "POINTER(EXCEPINFO)", "POINTER(UINT)">>) >>)

\* Interfaces of a server: ICalc with Add(a, b) -> sum, and ICalc2 deriving
\* from it.
ICalc ==
  ItfDesc(N_ICalc, "IID_ICalc", "IUnknown",
    << COMMETHOD({}, N_Add, <<"c_int", "c_int", "POINTER(c_int)">>,
                 <<F_IN, F_IN, F_OUT>>),
       COMMETHOD({}, N_Swap, <<"c_int", "c_int", "POINTER(c_int)", "POINTER(c_int)">>,
                 <<F_IN, F_IN, F_OUT, F_OUT>>),
       COMMETHOD({}, N_Foo, <<"c_int">>, <<F_IN>>) >>)

ICalc2 ==
  ItfDesc(N_ICalc2, "IID_ICalc2", "ICalc",
    << COMMETHOD({}, N_Neg, <<"c_int", "POINTER(c_int)">>,
                 <<F_IN, F_OUT + 8>>) >>)

\* The dispinterface of the test server, as the type library wrapper
\* declares it: no table slots of its own, members reached through Invoke.
DTestDispServer ==
  [DispItfDesc(N_DTestDispServer, "IID_DTestDispServer", "IDispatch",
     << DISPMETHOD(10, {}, TRUE, N_eval, <<{"in"}>>),
        DISPMETHOD(11, {}, TRUE, N_eval2, <<{"in"}>>),
        DISPPROPERTY(12, {"readonly"}, TRUE, N_id),
        DISPPROPERTY(13, {}, TRUE, N_name),
        DISPMETHOD(14, {}, FALSE, N_SetName, <<{"in"}>>) >>)
     EXCEPT !.case_insensitive = TRUE]

\* The dispinterface of the events the test server fires, EvalStarted(expr)
\* and EvalCompleted(expr, result).
DTestDispServerEvents ==
  DispItfDesc(N_DTestDispServerEvents, "IID_DTestDispServerEvents", "IDispatch",
    << DISPMETHOD(20, {}, FALSE, N_EvalStarted, <<{"in"}>>),
       DISPMETHOD(21, {}, FALSE, N_EvalCompleted, <<{"in"}, {"in"}>>) >>)

ItfKeys == {"IUnknown", "ISupportErrorInfo", "IPersist", "IProvideClassInfo",
            "IProvideClassInfo2", "IDispatch", "ICalc", "ICalc2"}

Interface(k) ==
  CASE k = "IUnknown" -> IUnknown
    [] k = "ISupportErrorInfo" -> ISupportErrorInfo
    [] k = "IPersist" -> IPersist
    [] k = "IProvideClassInfo" -> IProvideClassInfo
    [] k = "IProvideClassInfo2" -> IProvideClassInfo2
    [] k = "IDispatch" -> IDispatch
    [] k = "ICalc" -> ICalc
    [] k = "ICalc2" -> ICalc2
    [] k = "DTestDispServer" -> DTestDispServer
    [] k = "DTestDispServerEvents" -> DTestDispServerEvents

AllIIDs == {Interface(k).iid : k \in ItfKeys} \cup {GUID_NULL}

\* itf.__mro__: the interface, its bases, and 'object' last.
RECURSIVE Mro(_)
Mro(k) == IF k = "object" THEN <<"object">> ELSE <<k>> \o Mro(Interface(k).base)

\* The chain in the order of __mro__, derived first.
MroDerivedFirst(k) ==
  LET m == Mro(k) IN [i \in 1..(Len(m) - 1) |-> m[i]]

\* itf.__mro__[-2::-1]: from the element before 'object' back to the first.
MroBaseFirst(k) ==
  LET m == Mro(k) IN [i \in 1..(Len(m) - 1) |-> m[Len(m) - i]]

\* ------------------------------------------------------- Python values
\* A Python int is the pair <<hi, lo>> standing for hi * 65536 + lo with lo in
\* 0..65535, so that codes above 2^31 - 1 and the bit operations of
\* HRESULT_FROM_WIN32 are computed exactly.
PyInt(n) == <<n \div 65536, n % 65536>>

\* The value a native caller receives when a Python int is returned through
\* a 32-bit signed result (HRESULT, c_long).
AsCLong(p) == (((p[1] + 32768) % 65536) - 32768) * 65536 + p[2]

\* What a managed method returns: None, an int or a tuple of ints.
None == [tag |-> "None", n |-> 0, items |-> <<>>]
IntVal(n) == [tag |-> "int", n |-> n, items |-> <<>>]
TupleVal(s) == [tag |-> "tuple", n |-> 0, items |-> s]

\* A conversion that leaves every code as it is.
HRESULT_FROM_WIN32_asis(is_none, errcode) ==
  IF is_none THEN <<32768, 0>> ELSE errcode

\* HRESULT_FROM_WIN32 on an optional Python int.
HRESULT_FROM_WIN32(is_none, errcode) ==
  IF is_none THEN <<32768, 0>>
  ELSE IF (errcode[1] \div 32768) % 2 = 1 THEN errcode
  ELSE <<32775, errcode[2]>>

\* winerror(exc) for a COMError (its hresult) or a WindowsError (its
\* winerror attribute when that is an int, else E_FAIL).
winerror(exc) ==
  IF exc.exc = "COMError" THEN exc.code
  ELSE IF exc.has_code THEN exc.code
  ELSE PyInt(E_FAIL)

\* comtypes.errorinfo.ReportError / ReportException: attach the error record
\* and hand back the hresult given.
ReportError(text, hresult) == hresult
ReportException(hresult) == hresult

\* ------------------------------------------------------ managed methods
\* A managed method: whether its first parameter after self is 'this', the
\* number of its parameters after self, and what its body does.
Method(this, argc, body) ==
  [this |-> this, argc |-> argc, body |-> body, has_code |-> FALSE,
   code |-> <<0, 0>>, text |-> "", value |-> 0]

Raising(this, argc, body, has_code, code, text) ==
  [this |-> this, argc |-> argc, body |-> body, has_code |-> has_code,
   code |-> code, text |-> text, value |-> 0]

\* An attribute that is plain data.
Data(v) ==
  [this |-> FALSE, argc |-> 0, body |-> "data", has_code |-> FALSE,
   code |-> <<0, 0>>, text |-> "", value |-> v]

Returned(v) == [exc |-> "none", val |-> v, has_code |-> FALSE, code |-> <<0, 0>>, text |-> ""]
Raised(e, has_code, code, text) ==
  [exc |-> e, val |-> None, has_code |-> has_code, code |-> code, text |-> text]

RECURSIVE SeqSum(_)
SeqSum(s) == IF s = <<>> THEN 0 ELSE Head(s) + SeqSum(Tail(s))

\* The value of the identity pointer a callable is entered with.
ThisPointer == 0

\* A ReturnHRESULT has_code when its args are the pair (hresult, text); a
\* WindowsError has_code when its winerror is an int.
\* mth(this, *callargs) or mth(*callargs): Python raises TypeError when the
\* number of arguments is not the number of parameters (argc, 'self' not
\* counted). Otherwise the body runs on what its parameters other than a
\* declared 'this' receive: for a method that declares no 'this' and is
\* handed one, the pointer is the first of them.
MthCall(m, with_this, callargs) ==
  LET r == IF with_this /\ ~m.this THEN <<ThisPointer>> \o callargs ELSE callargs IN
  IF Len(callargs) + (IF with_this THEN 1 ELSE 0) # m.argc
    THEN Raised("TypeError", FALSE, <<0, 0>>, "")
  ELSE CASE m.body = "sum" -> Returned(IntVal(SeqSum(r)))
         [] m.body = "swap" /\ Len(r) = 2 -> Returned(TupleVal(<<r[2], r[1]>>))
         [] m.body = "neg" /\ Len(r) = 1 -> Returned(IntVal(0 - r[1]))
         [] m.body = "none" -> Returned(None)
         [] m.body = "int" -> Returned(IntVal(7))
         [] m.body = "value" -> Returned(IntVal(m.value))
         [] m.body = "single" -> Returned(TupleVal(<<7>>))
         [] m.body = "pair" -> Returned(TupleVal(<<7, 8>>))
         [] m.body = "triple" -> Returned(TupleVal(<<7, 8, 9>>))
         [] m.body = "s_ok" -> Returned(IntVal(S_OK))
         [] m.body = "ReturnHRESULT" -> Raised("ReturnHRESULT", m.has_code, m.code, m.text)
         [] m.body = "COMError" -> Raised("COMError", TRUE, m.code, m.text)
         [] m.body = "WindowsError" -> Raised("WindowsError", m.has_code, m.code, m.text)
         [] m.body = "E_NotImplemented" -> Raised("E_NotImplemented", FALSE, <<0, 0>>, "")
         [] m.body = "AttributeError" -> Raised("AttributeError", FALSE, <<0, 0>>, "")
         [] m.body = "GetGUID" /\ Len(r) = 1 ->
              IF r[1] # 1 THEN Raised("WindowsError", FALSE, PyInt(E_INVALIDARG), "")
              ELSE IF m.value = 1 THEN Returned(IntVal(7))
              ELSE Raised("AttributeError", FALSE, <<0, 0>>, "")
         [] OTHER -> Raised("RuntimeError", FALSE, <<0, 0>>, "")

\* --------------------------------------------------------- _do_implement
\* What a callable hands back: the exception that left it ("none" when it
\* returned), the result code, the output slots it wrote (by argument
\* index), the arguments the managed method received, and the error record
\* attached for the call.
NoErrorInfo == [set |-> FALSE, text |-> ""]
ErrorInfo(text) == [set |-> TRUE, text |-> text]

CallResult(raised, hr, outs, passed_this, passed) ==
  [raised |-> raised, hr |-> hr, outs |-> outs, passed_this |-> passed_this,
   passed |-> passed, errinfo |-> NoErrorInfo]

\* '(hresult, text) = err.args' raises ValueError inside the except clause
\* when args is not a pair; no other clause of the try catches it.
UnpackFails(o) == o.exc = "ReturnHRESULT" /\ ~o.has_code

\* What the native caller reads as the result code when the callable hands
\* back a value that is not an integer: no code the module defines.
NotACode == 1000000

\* An output slot: whether it was written, and with what.
NotWritten == [written |-> FALSE, v |-> None]
Written(v) == [written |-> TRUE, v |-> v]
NoOuts(args) == [i \in 1..Len(args) |-> NotWritten]

\* A stub that reports a generic failure.
_not_implemented_fail(args) == CallResult("none", E_FAIL, NoOuts(args), FALSE, <<>>)

\* _do_implement(...)(*args): the not-implemented stub.
_not_implemented(args) == CallResult("none", E_NOTIMPL, NoOuts(args), FALSE, <<>>)

\* ---------------------------------------------------------- catch_errors
\* A handler that turns every exception into the generic failure.
CatchErrorsCodeGeneric(o) == ReportException(PyInt(E_FAIL))

\* The result code of an exception, in call_with_this.
CatchErrorsCode(o) ==
  CASE o.exc = "ReturnHRESULT" -> ReportError(o.text, o.code)
    [] o.exc \in {"COMError", "WindowsError"} -> HRESULT_FROM_WIN32(FALSE, winerror(o))
    [] o.exc = "E_NotImplemented" -> PyInt(E_NOTIMPL)
    [] OTHER -> ReportException(PyInt(E_FAIL))

\* The error record call_with_this attaches: ReportError attaches the text
\* it is given, ReportException the description of the exception.
CatchErrorsInfo(o) ==
  CASE o.exc = "ReturnHRESULT" -> ErrorInfo(o.text)
    [] o.exc \in {"COMError", "WindowsError", "E_NotImplemented"} -> NoErrorInfo
    [] OTHER -> ErrorInfo("exception")

\* catch_errors(...).call_with_this(this, *args): the managed method takes
\* 'this' and every native argument and writes its outputs itself.
call_with_this(m, args) ==
  LET o == MthCall(m, TRUE, args) IN
    IF UnpackFails(o)
      THEN CallResult("ValueError", NotACode, NoOuts(args), TRUE, args)
    ELSE IF o.exc # "none"
      THEN [CallResult("none", AsCLong(CatchErrorsCode(o)), NoOuts(args), TRUE, args)
              EXCEPT !.errinfo = CatchErrorsInfo(o)]
    ELSE IF o.val.tag = "None"
      THEN CallResult("none", S_OK, NoOuts(args), TRUE, args)
    ELSE IF o.val.tag = "int"
      THEN CallResult("none", o.val.n, NoOuts(args), TRUE, args)
    ELSE CallResult("none", NotACode, NoOuts(args), TRUE, args)

\* has_outargs as catch_errors sets it.
CatchErrorsHasOutargs(has_paramflags, paramflags) ==
  has_paramflags /\ \E i \in 1..Len(paramflags) : (paramflags[i] \div 2) % 2 = 1

\* ------------------------------------------------------------------ hack
IsOut(a) == (a \div 2) % 2 = 1
IsIn(a) == a % 2 = 1 \/ a = 0

\* args_out_idx and args_in_idx: the positions of the output and of the
\* input parameters, in declared order.
RECURSIVE Positions(_, _, _)
Positions(flags, i, out) ==
  IF i > Len(flags) THEN <<>>
  ELSE (IF (IF out THEN IsOut(flags[i]) ELSE IsIn(flags[i])) THEN <<i>> ELSE <<>>)
       \o Positions(flags, i + 1, out)

args_out_idx(paramflags) == Positions(paramflags, 1, TRUE)
args_in_idx(paramflags) == Positions(paramflags, 1, FALSE)

\* The result code of an exception, in call_without_this.
HackCode(o) ==
  CASE o.exc = "ReturnHRESULT" -> ReportError(o.text, o.code)
    [] o.exc = "COMError" -> ReportError(o.text, HRESULT_FROM_WIN32(FALSE, o.code))
    [] o.exc = "WindowsError" -> ReportException(HRESULT_FROM_WIN32(FALSE, winerror(o)))
    [] o.exc = "E_NotImplemented" -> PyInt(E_NOTIMPL)
    [] OTHER -> ReportException(PyInt(E_FAIL))

\* The error record call_without_this attaches.
HackInfo(o) ==
  CASE o.exc = "ReturnHRESULT" -> ErrorInfo(o.text)
    [] o.exc = "COMError" -> ErrorInfo("details")
    [] o.exc = "E_NotImplemented" -> NoErrorInfo
    [] OTHER -> ErrorInfo("exception")

\* 'for i, value in enumerate(result): args[args_out_idx[i]][0] = value':
\* the slots written before an index, if any, falls outside args.
RECURSIVE WriteOuts(_, _, _, _, _)
WriteOuts(outs, idx, items, i, nargs) ==
  IF i > Len(items) \/ i > Len(idx) THEN outs
  ELSE IF idx[i] > nargs THEN outs
  ELSE WriteOuts([outs EXCEPT ![idx[i]] = Written(IntVal(items[i]))], idx, items,
                 i + 1, nargs)

\* A length check that lets any sequence through.
ResultFitsAny(result, args_out) == result.tag = "tuple"

\* 'len(result) != args_out' does not raise: the result has a length, and it
\* is the number of output parameters.
ResultFits(result, args_out) == result.tag = "tuple" /\ Len(result.items) = args_out

\* A hack that never adapts.
hackNever(m, has_paramflags, paramflags) ==
  [kind |-> "with_this", has_outargs |-> FALSE]

\* hack(...).call_without_this(this, *args): the managed method gets the
\* input arguments only, and its result goes to the output slots.
call_without_this(m, paramflags, args) ==
  LET in_idx == args_in_idx(paramflags)
      out_idx == args_out_idx(paramflags)
      args_out == Len(out_idx)
      n == Len(args)
  IN
  IF \E k \in 1..Len(in_idx) : in_idx[k] > n
    THEN CallResult("IndexError", E_FAIL, NoOuts(args), FALSE, <<>>)
  ELSE
  LET inargs == [k \in 1..Len(in_idx) |-> args[in_idx[k]]]
      o == MthCall(m, FALSE, inargs)
      failed(code) ==
        [CallResult("none", AsCLong(code), NoOuts(args), FALSE, inargs)
           EXCEPT !.errinfo = ErrorInfo("exception")]
  IN
    IF UnpackFails(o)
      THEN CallResult("ValueError", NotACode, NoOuts(args), FALSE, inargs)
    ELSE IF o.exc # "none"
      THEN [CallResult("none", AsCLong(HackCode(o)), NoOuts(args), FALSE, inargs)
              EXCEPT !.errinfo = HackInfo(o)]
    ELSE IF args_out = 1 THEN
      IF out_idx[1] > n
        THEN failed(ReportException(PyInt(E_FAIL)))
        ELSE CallResult("none", S_OK, [NoOuts(args) EXCEPT ![out_idx[1]] = Written(o.val)],
                        FALSE, inargs)
    ELSE IF args_out # 0 THEN
      IF ~ResultFits(o.val, args_out) THEN failed(ReportException(PyInt(E_FAIL)))
      ELSE IF \E k \in 1..args_out : out_idx[k] > n
        THEN [CallResult("none", AsCLong(ReportException(PyInt(E_FAIL))),
                         WriteOuts(NoOuts(args), out_idx, o.val.items, 1, n), FALSE, inargs)
                EXCEPT !.errinfo = ErrorInfo("exception")]
      ELSE CallResult("none", S_OK,
                      WriteOuts(NoOuts(args), out_idx, o.val.items, 1, n), FALSE, inargs)
    ELSE CallResult("none", S_OK, NoOuts(args), FALSE, inargs)

\* hack(inst, mth, paramflags, interface, mthname): which callable wraps the
\* managed method, and its has_outargs mark.
hack(m, has_paramflags, paramflags) ==
  IF ~has_paramflags
    THEN [kind |-> "with_this", has_outargs |-> CatchErrorsHasOutargs(has_paramflags, paramflags)]
  ELSE IF m.this
    THEN [kind |-> "with_this", has_outargs |-> CatchErrorsHasOutargs(has_paramflags, paramflags)]
  ELSE [kind |-> "without_this", has_outargs |-> Len(args_out_idx(paramflags)) # 0]

\* ---------------------------------------------------------- _MethodFinder
\* Code points order the characters, and so dir(inst).
Alphabet == <<"0", "1", "2", "3", "4", "5", "6", "7", "8", "9">> \o UpperCase
            \o Underscore \o LowerCase
Ord(c) == CHOOSE i \in 1..Len(Alphabet) : Alphabet[i] = c

RECURSIVE StrLess(_, _)
StrLess(a, b) ==
  IF b = <<>> THEN FALSE
  ELSE IF a = <<>> THEN TRUE
  ELSE IF Ord(Head(a)) # Ord(Head(b)) THEN Ord(Head(a)) < Ord(Head(b))
  ELSE StrLess(Tail(a), Tail(b))

\* self.names.get(key, default): names maps n.lower() to n over dir(inst),
\* the last name in dir's sorted order winning.
NamesGet(attrs, key, default) ==
  LET hits == {n \in DOMAIN attrs : Lower(n) = key} IN
    IF hits = {} THEN default
    ELSE CHOOSE n \in hits : \A x \in hits : x = n \/ StrLess(x, n)

NoName == <<>>

\* A finder that tries the bare name first.
find_method_bare_first(attrs, fq_name, mthname) ==
  IF mthname \in DOMAIN attrs THEN [found |-> TRUE, name |-> mthname]
  ELSE IF fq_name \in DOMAIN attrs THEN [found |-> TRUE, name |-> fq_name]
  ELSE [found |-> FALSE, name |-> NoName]

\* find_method: the qualified name first, the bare name second; found is
\* FALSE where Python raises AttributeError.
find_method(attrs, fq_name, mthname) ==
  IF fq_name \in DOMAIN attrs THEN [found |-> TRUE, name |-> fq_name]
  ELSE IF mthname \in DOMAIN attrs THEN [found |-> TRUE, name |-> mthname]
  ELSE [found |-> FALSE, name |-> NoName]

\* find_impl: kind "method" with the attribute found, "getter" / "setter"
\* with the property name, "None" when nothing implements the member, and
\* "TypeError" where len(paramflags) is taken of None.
find_impl(attrs, interface, mthname0, has_paramflags, paramflags, idlflags) ==
  LET ci == interface.case_insensitive
      fq0 == interface.name \o Underscore \o mthname0
      mthname == IF ci THEN NamesGet(attrs, Lower(mthname0), mthname0) ELSE mthname0
      fq_name == IF ci THEN NamesGet(attrs, Lower(fq0), fq0) ELSE fq0
      fm == find_method(attrs, fq_name, mthname)
      propname0 == SubSeq(mthname, 6, Len(mthname))
      propname == IF ci THEN NamesGet(attrs, Lower(propname0), propname0) ELSE propname0
  IN
    IF fm.found THEN [kind |-> "method", name |-> fm.name]
    ELSE IF "propget" \in idlflags /\ ~has_paramflags THEN [kind |-> "TypeError", name |-> NoName]
    ELSE IF "propget" \in idlflags /\ Len(paramflags) = 1 THEN [kind |-> "getter", name |-> propname]
    ELSE IF "propput" \in idlflags /\ ~has_paramflags THEN [kind |-> "TypeError", name |-> NoName]
    ELSE IF "propput" \in idlflags /\ Len(paramflags) = 1 THEN [kind |-> "setter", name |-> propname]
    ELSE [kind |-> "None", name |-> NoName]

\* The functions made by getter(propname) and setter(propname), as methods.
GetterMethod == Method(FALSE, 0, "getattr")
SetterMethod == Method(FALSE, 1, "setattr")

\* The managed method behind a find_impl result.
TargetMethod(attrs, f) ==
  CASE f.kind = "method" -> attrs[f.name]
    [] f.kind = "getter" ->
         IF f.name \in DOMAIN attrs
           THEN [GetterMethod EXCEPT !.body = "value", !.value = attrs[f.name].value]
           ELSE [GetterMethod EXCEPT !.body = "E_NotImplemented"]
    [] OTHER -> [SetterMethod EXCEPT !.body = "none"]

\* An entry of a table or of the dispatch map: the callable get_impl returns.
Impl(kind, target, has_paramflags, paramflags, has_outargs) ==
  [kind |-> kind, target |-> target, has_paramflags |-> has_paramflags,
   paramflags |-> paramflags, has_outargs |-> has_outargs]

\* get_impl: the stub when find_impl finds nothing, else hack's callable;
\* kind "raise" where find_impl raises.
get_impl(attrs, interface, mthname, has_paramflags, paramflags, idlflags) ==
  LET f == find_impl(attrs, interface, mthname, has_paramflags, paramflags, idlflags) IN
    IF f.kind = "None" THEN Impl("stub", f, has_paramflags, paramflags, FALSE)
    ELSE IF f.kind = "TypeError" THEN Impl("raise", f, has_paramflags, paramflags, FALSE)
    ELSE LET h == hack(TargetMethod(attrs, f), has_paramflags, paramflags) IN
           Impl(h.kind, f, has_paramflags, paramflags, h.has_outargs)

\* Calling a callable made by get_impl with the arguments after 'this'.
CallImpl(attrs, impl, args) ==
  CASE impl.kind = "stub" -> _not_implemented(args)
    [] impl.kind = "with_this" -> call_with_this(TargetMethod(attrs, impl.target), args)
    [] OTHER -> call_without_this(TargetMethod(attrs, impl.target), impl.paramflags, args)

\* ------------------------------------------------------ classes of objects
\* The instance's attributes (dir(inst)) as a map from names to methods.
AttrsFrom(pairs) ==
  [n \in {p[1] : p \in pairs} |-> (CHOOSE p \in pairs : p[1] = n)[2]]

Fq(itf, mth) == itf \o Underscore \o mth

\* What every COMObject inherits.
BaseAttrPairs ==
  { <<Fq(N_IUnknown, N_AddRef), Method(TRUE, 1, "core")>>,
    <<Fq(N_IUnknown, N_Release), Method(TRUE, 1, "core")>>,
    <<Fq(N_IUnknown, N_QueryInterface), Method(TRUE, 3, "core")>>,
    <<N_QueryInterface, Method(FALSE, 1, "core")>>,
    <<Fq(N_ISupportErrorInfo, N_InterfaceSupportsErrorInfo), Method(TRUE, 2, "core")>>,
    <<Fq(N_IDispatch, N_GetTypeInfoCount), Method(FALSE, 0, "core")>>,
    <<Fq(N_IDispatch, N_GetTypeInfo), Method(TRUE, 4, "core")>>,
    <<Fq(N_IDispatch, N_GetIDsOfNames), Method(TRUE, 6, "core")>>,
    <<Fq(N_IDispatch, N_Invoke), Method(TRUE, 9, "core")>> }

\* The accessors of the class metadata, on an instance of class cfg:
\* IPersist_GetClassID returns self._reg_clsid_; IProvideClassInfo_GetClassInfo
\* raises WindowsError(E_NOTIMPL), an exception whose winerror is None,
\* without __typelib, and reads self._reg_clsid_ with it;
\* IProvideClassInfo2_GetGUID reads self._outgoing_interfaces_ (value 1:
\* the class has them).
AccessorAttrPairs(cfg) ==
  { <<Fq(N_IPersist, N_GetClassID),
      IF cfg.reg_clsid THEN Method(FALSE, 0, "int") ELSE Method(FALSE, 0, "AttributeError")>>,
    <<Fq(N_IProvideClassInfo, N_GetClassInfo),
      IF ~cfg.reg_typelib
        THEN Raising(FALSE, 0, "WindowsError", FALSE, PyInt(E_NOTIMPL), "")
      ELSE IF cfg.reg_clsid THEN Method(FALSE, 0, "int")
      ELSE Method(FALSE, 0, "AttributeError")>>,
    <<Fq(N_IProvideClassInfo2, N_GetGUID),
      [Method(FALSE, 1, "GetGUID") EXCEPT !.value = IF cfg.outgoing THEN 1 ELSE 0]>> }

\* A server's own methods: ICalc_Add(self, a, b), Swap(self, a, b) under its
\* bare name, ICalc2_Neg(self, a); Foo has no implementation.
CalcAttrPairs ==
  { <<Fq(N_ICalc, N_Add), Method(FALSE, 2, "sum")>>,
    <<N_Swap, Method(FALSE, 2, "swap")>>,
    <<Fq(N_ICalc2, N_Neg), Method(FALSE, 1, "neg")>> }

\* The methods of TestDispServer.
DispServerAttrPairs ==
  { <<Fq(N_DTestDispServer, N_eval), Method(TRUE, 3, "s_ok")>>,
    <<Fq(N_DTestDispServer, N_eval2), Method(FALSE, 1, "sum")>>,
    <<Fq(N_DTestDispServer, N_get \o N_id), Method(TRUE, 2, "s_ok")>>,
    <<Fq(N_DTestDispServer, N_get \o N_name), Method(TRUE, 2, "s_ok")>>,
    <<Fq(N_DTestDispServer, N_set \o N_name), Method(TRUE, 2, "s_ok")>>,
    <<Fq(N_DTestDispServer, N_sEtNaMe), Method(FALSE, 1, "none")>> }

\* The attributes of an instance of a class that does, or does not, define
\* the server's own methods.
Attrs(cfg) ==
  IF cfg.implemented
    THEN AttrsFrom(BaseAttrPairs \cup AccessorAttrPairs(cfg) \cup CalcAttrPairs
                     \cup DispServerAttrPairs)
  ELSE AttrsFrom(BaseAttrPairs \cup AccessorAttrPairs(cfg))

DeclaredLists ==
  { <<>>, <<"ICalc">>, <<"ICalc2">>, <<"ICalc2", "ICalc">>,
    <<"ICalc", "ISupportErrorInfo">>, <<"IDispatch", "IProvideClassInfo2">>,
    <<"IPersist", "ICalc">> }

\* A class: _com_interfaces_, whether it has _reg_clsid_, _reg_typelib_ and
\* _outgoing_interfaces_, and whether it defines the server's methods.
Configs ==
  [com_interfaces : DeclaredLists, reg_clsid : BOOLEAN, reg_typelib : BOOLEAN,
   outgoing : BOOLEAN, implemented : BOOLEAN]

\* The class of the objects of the concurrent runs.
CoreClass(o) ==
  IF o % 2 = 1
    THEN [com_interfaces |-> <<"ICalc2">>, reg_clsid |-> TRUE, reg_typelib |-> FALSE,
          outgoing |-> FALSE, implemented |-> TRUE]
    ELSE [com_interfaces |-> <<"IDispatch", "IProvideClassInfo2">>, reg_clsid |-> TRUE,
          reg_typelib |-> TRUE, outgoing |-> TRUE, implemented |-> FALSE]

\* ------------------------------------------------ interface table builder
EmptyMap == [x \in {} |-> 0]
Put(f, k, v) == [x \in (DOMAIN f) \cup {k} |-> IF x = k THEN v ELSE f[x]]
Range(s) == {s[i] : i \in 1..Len(s)}

\* The slots of one interface of the chain: for each method of _methods_,
\* in declaration order, its field (name, prototype) and its callable.
SlotsOf(attrs, k) ==
  LET I == Interface(k) IN
    [j \in 1..Len(I.methods) |->
       [name |-> I.methods[j].name,
        proto |-> [restype |-> I.methods[j].restype, argtypes |-> I.methods[j].argtypes],
        interface |-> k,
        impl |-> get_impl(attrs, I, I.methods[j].name, I.methods[j].has_paramflags,
                          I.methods[j].paramflags, I.methods[j].idlflags)]]

\* The loop over itf.__mro__[-2::-1].
RECURSIVE ChainSlots(_, _, _)
ChainSlots(attrs, chain, i) ==
  IF i > Len(chain) THEN <<>>
  ELSE SlotsOf(attrs, chain[i]) \o ChainSlots(attrs, chain, i + 1)

ChainIIDs(chain) == [i \in 1..Len(chain) |-> Interface(chain[i]).iid]

FieldsOf(slots) == [i \in 1..Len(slots) |-> <<slots[i].name, slots[i].proto>>]

\* A class statement makes a type that no earlier one is: Vtbl, named after
\* itf, told apart by the number of types the cache held when it was made.
NewVtbl(cache, k) == [name |-> k, serial |-> Cardinality(DOMAIN cache) + 1]

\* A _create_vtbl_type that makes a type at every call.
_create_vtbl_type_always(cache, fields, k) ==
  [type |-> NewVtbl(cache, k), cache |-> Put(cache, fields, NewVtbl(cache, k))]

\* _create_vtbl_type(fields, itf): the cached type for these fields, or a
\* new type named after itf, which enters the cache.
_create_vtbl_type(cache, fields, k) ==
  IF fields \in DOMAIN cache
    THEN [type |-> cache[fields], cache |-> cache]
    ELSE [type |-> NewVtbl(cache, k), cache |-> Put(cache, fields, NewVtbl(cache, k))]

\* One pass of 'for iid in iids: self._com_pointers_[iid] = ...'.
RECURSIVE SetPointers(_, _, _, _)
SetPointers(ptrs, iids, i, k) ==
  IF i > Len(iids) THEN ptrs
  ELSE SetPointers(Put(ptrs, iids[i], k), iids, i + 1, k)

\* comtypes._encode_idl: the sum of the flags of the direction names.
_encode_idl(names) ==
  (IF "in" \in names THEN F_IN ELSE 0) + (IF "out" \in names THEN F_OUT ELSE 0)
    + (IF "lcid" \in names THEN 4 ELSE 0) + (IF "retval" \in names THEN 8 ELSE 0)
    + (IF "optional" \in names THEN 16 ELSE 0)

\* A call of __make_dispentry: the method name looked for, the argspec and
\* the invocation kind.
DispEntry(mthname, argspec, invkind) ==
  [mthname |-> mthname, argspec |-> argspec, invkind |-> invkind]

\* __make_dispmthentry: the call of __make_dispentry it makes.
make_dispmthentry(m) ==
  IF "propget" \in m.idlflags
    THEN <<DispEntry(N_get \o m.name, m.argspec, DISPATCH_PROPERTYGET)>>
  ELSE IF "propput" \in m.idlflags
    THEN <<DispEntry(N_set \o m.name, m.argspec, DISPATCH_PROPERTYPUT)>>
  ELSE IF "propputref" \in m.idlflags
    THEN <<DispEntry(N_setref \o m.name, m.argspec, DISPATCH_PROPERTYPUTREF)>>
  ELSE <<DispEntry(m.name,
                   IF m.has_restype THEN Append(m.argspec, {"out"}) ELSE m.argspec,
                   DISPATCH_METHOD)>>

\* __make_disppropentry: the calls of __make_dispentry it makes, in order.
make_disppropentry(m) ==
  LET argspec == IF m.has_restype THEN Append(m.argspec, {"out"}) ELSE m.argspec IN
    <<DispEntry(N_get \o m.name, argspec, DISPATCH_PROPERTYGET)>>
      \o (IF "readonly" \notin m.idlflags
            THEN <<DispEntry(N_set \o m.name, argspec, DISPATCH_PROPERTYPUT)>>
            ELSE <<>>)

\* The calls of __make_dispentry for the members from the i-th on.
RECURSIVE DispCalls(_, _)
DispCalls(itf, i) ==
  IF i > Len(itf.disp_methods) THEN <<>>
  ELSE (IF itf.disp_methods[i].what = "DISPMETHOD"
          THEN [c \in 1..Len(make_dispmthentry(itf.disp_methods[i])) |->
                  [call |-> make_dispmthentry(itf.disp_methods[i])[c],
                   member |-> itf.disp_methods[i]]]
        ELSE IF itf.disp_methods[i].what = "DISPPROPERTY"
          THEN [c \in 1..Len(make_disppropentry(itf.disp_methods[i])) |->
                  [call |-> make_disppropentry(itf.disp_methods[i])[c],
                   member |-> itf.disp_methods[i]]]
        ELSE <<>>)
       \o DispCalls(itf, i + 1)

\* A registration under the invocation kind alone.
SetDispimplOwnKind(dispimpl, dispid, invkind, impl) ==
  Put(dispimpl, <<dispid, invkind>>, impl)

\* 'self._dispimpl_[(dispid, invkind)] = impl', and for a method or a
\* property-get the same under both kinds together.
SetDispimpl(dispimpl, dispid, invkind, impl) ==
  IF invkind \in {DISPATCH_METHOD, DISPATCH_PROPERTYGET}
    THEN Put(Put(dispimpl, <<dispid, invkind>>, impl),
             <<dispid, DISPATCH_METHOD + DISPATCH_PROPERTYGET>>, impl)
    ELSE Put(dispimpl, <<dispid, invkind>>, impl)

\* __make_dispentry: the callable the finder finds enters the map.
make_dispentry(attrs, dispimpl, interface, c) ==
  SetDispimpl(dispimpl, c.member.dispid, c.call.invkind,
              get_impl(attrs, interface, c.call.mthname, TRUE,
                       [i \in 1..Len(c.call.argspec) |-> _encode_idl(c.call.argspec[i])],
                       c.member.idlflags))

\* 'self._dispimpl_ = {}' and the loop over itf._disp_methods_.
RECURSIVE DispEntries(_, _, _, _, _)
DispEntries(attrs, dispimpl, itf, calls, i) ==
  IF i > Len(calls) THEN dispimpl
  ELSE DispEntries(attrs, make_dispentry(attrs, dispimpl, itf, calls[i]), itf, calls, i + 1)

\* A map that keeps the entries it has.
KeptDispimpl(old) == old

\* 'self._dispimpl_ = {}'.
NewDispimpl(old) == EmptyMap

make_dispimpl(attrs, old, itf) ==
  DispEntries(attrs, NewDispimpl(old), itf, DispCalls(itf, 1), 1)

\* A COMObject under construction: its table map, the table built for each
\* interface (slots, identity list, table type), and whether building raised.
NewObject ==
  [com_pointers |-> EmptyMap, tables |-> EmptyMap, iids |-> EmptyMap,
   vtbl |-> EmptyMap, raised |-> FALSE, has_dispimpl |-> FALSE, dispimpl |-> EmptyMap]

\* __make_interface_pointer(itf) on an object and the type cache.
make_interface_pointer(attrs, st, k) ==
  LET chain == MroBaseFirst(k)
      slots == ChainSlots(attrs, chain, 1)
      iids == ChainIIDs(chain)
      made == _create_vtbl_type(st.cache, FieldsOf(slots), k)
  IN
    IF st.self.raised THEN st
    ELSE IF \E i \in 1..Len(slots) : slots[i].impl.kind = "raise"
      THEN [st EXCEPT !.self.raised = TRUE]
    ELSE [self |-> [com_pointers |-> SetPointers(st.self.com_pointers, iids, 1, k),
                    tables |-> Put(st.self.tables, k, slots),
                    iids |-> Put(st.self.iids, k, iids),
                    vtbl |-> Put(st.self.vtbl, k, made.type),
                    raised |-> FALSE,
                    has_dispimpl |-> st.self.has_dispimpl \/ Interface(k).has_disp,
                    dispimpl |-> IF Interface(k).has_disp
                                   THEN make_dispimpl(attrs, st.self.dispimpl, Interface(k))
                                   ELSE st.self.dispimpl],
          cache |-> made.cache]

\* An addition that does not look at what is declared.
AddAlways(s, k) == Append(s, k)

\* The interfaces __prepare_comobject builds tables for: the declared ones,
\* then the defaults that are not declared.
AddIfAbsent(s, k) == IF k \in Range(s) THEN s ELSE Append(s, k)

PrepareInterfaces(cfg) ==
  LET i1 == AddIfAbsent(cfg.com_interfaces, "ISupportErrorInfo")
      i2 == IF cfg.reg_typelib /\ cfg.reg_clsid
              THEN AddIfAbsent(i1, "IProvideClassInfo") ELSE i1
      i3 == IF cfg.reg_typelib /\ cfg.reg_clsid /\ cfg.outgoing
              THEN AddIfAbsent(i2, "IProvideClassInfo2") ELSE i2
  IN IF cfg.reg_clsid THEN AddIfAbsent(i3, "IPersist") ELSE i3

\* A loop that builds the tables in the order of declaration.
Forward(s) == s

\* interfaces[::-1].
Reversed(s) == [i \in 1..Len(s) |-> s[Len(s) + 1 - i]]

\* 'for itf in interfaces[::-1]: self.__make_interface_pointer(itf)', from
\* the i-th of the interfaces in loop order on.
RECURSIVE BuildFrom(_, _, _, _)
BuildFrom(attrs, order, i, st) ==
  IF i > Len(order) THEN st
  ELSE BuildFrom(attrs, order, i + 1, make_interface_pointer(attrs, st, order[i]))

\* __prepare_comobject for an object of class cfg, given the type cache.
prepare_comobject(cfg, cache) ==
  BuildFrom(Attrs(cfg), Reversed(PrepareInterfaces(cfg)), 1,
            [self |-> NewObject, cache |-> cache])

\* ------------------------------------------------------------ the state
VARIABLES
  cls,          \* per object: its class
  refcnt,       \* per object: COMObject._refcnt.value
  pointers,     \* per object: COMObject._com_pointers_ (identity -> table)
  instances,    \* COMObject._instances_ (its keys)
  server,       \* COMObject.__server__: "none" or "inproc"
  locks,        \* InprocServer.locks.value
  th,           \* per thread: the call in progress
  last,         \* the call that returned last, and what it returned
  ncalls,       \* calls started
  held,         \* per thread and object: references taken minus released
  misused,      \* some Release was made for a reference its thread never took
  keeps,        \* per object: calls of __keep__
  unkeeps,      \* per object: calls of __unkeep__
  finals,       \* per object: calls of _final_release_
  unkeeper,     \* per object: the thread whose Release called __unkeep__ last
  unload,       \* the last DllCanUnloadNow: what it returned and what it saw
  built,        \* the object constructed last: its class and its tables
  nbuilt,       \* objects constructed
  vtbl_types,   \* the module's cache _vtbl_types (fields -> table type)
  slotcall,     \* the last call of a table slot and its outcome
  adapted,      \* an adapted callable: its inputs, and its outcome once called
  invoke,       \* an IDispatch::Invoke call: its inputs, and its outcome
  lserver       \* a LocalServer, the thread in its run() and the threads that
                \* call its Lock and Unlock

coreVars == <<cls, refcnt, pointers, instances, server, locks, th, last, ncalls, held,
              misused, keeps, unkeeps, finals, unkeeper, unload>>
historyVars == <<keeps, unkeeps, finals, unkeeper>>
buildVars == <<built, nbuilt, vtbl_types, slotcall>>
vars == <<coreVars, buildVars, adapted, invoke, lserver>>

\* A thread outside any call. pc: where it stands in a call; cur: the object
\* called; result: the local 'result'; req, ptr: QueryInterface's riid and
\* the pointer it found.
IdleThread == [pc |-> "idle", cur |-> 1, result |-> 0, req |-> "", ptr |-> ""]

\* A call that returned: the operation, its thread and object, the identity
\* asked for, the value returned and the caller's output pointer.
Return(op, t, o, req, ret, ppv) ==
  [op |-> op, t |-> t, obj |-> o, req |-> req, ret |-> ret, ppv |-> ppv]

CoreInit(classes) ==
  /\ cls \in classes
  /\ refcnt = [o \in Objects |-> 0]
  /\ pointers = [o \in Objects |-> prepare_comobject(cls[o], EmptyMap).self.com_pointers]
  /\ instances = {}
  /\ server = "none"
  /\ locks = 0
  /\ th = [t \in Threads |-> IdleThread]
  /\ last = Return("none", 1, 1, "", 0, Unwritten)
  /\ ncalls = 0
  /\ held = [t \in Threads |-> [o \in Objects |-> 0]]
  /\ misused = FALSE
  /\ keeps = [o \in Objects |-> 0]
  /\ unkeeps = [o \in Objects |-> 0]
  /\ finals = [o \in Objects |-> 0]
  /\ unkeeper = [o \in Objects |-> 0]
  /\ unload = [asked |-> FALSE, hr |-> S_OK, locks |-> 0, instances |-> {}]

\* ------------------------------------------------ interlocked operations
\* An increment that takes two.
_InterlockedIncrementTwice(v) == v + 2

_InterlockedIncrement(v) == v + 1

\* A decrement that takes two.
_InterlockedDecrementTwice(v) == v - 2

_InterlockedDecrement(v) == v - 1

\* ------------------------------------------------------------- the server
\* COMObject.__run_inprocserver__: installs an InprocServer, once.
RunInprocServer ==
  /\ server = "none"
  /\ server' = "inproc"
  /\ locks' = 0
  /\ UNCHANGED <<cls, refcnt, pointers, instances, th, last, ncalls, held, misused,
                 historyVars, unload>>

\* A DllCanUnloadNow that looks at the lock count alone.
DllCanUnloadNowLocksOnly(l, inst) == IF l # 0 THEN S_FALSE ELSE S_OK

\* InprocServer.DllCanUnloadNow on the lock count and the registry.
DllCanUnloadNowResult(l, inst) ==
  IF l # 0 THEN S_FALSE
  ELSE IF inst # {} THEN S_FALSE
  ELSE S_OK

DllCanUnloadNow ==
  /\ server = "inproc"
  /\ unload' = [asked |-> TRUE, hr |-> DllCanUnloadNowResult(locks, instances),
                 locks |-> locks, instances |-> instances]
  /\ UNCHANGED <<cls, refcnt, pointers, instances, server, locks, th, last, ncalls,
                 held, misused, historyVars>>

\* ------------------------------------------------------- IUnknown_AddRef
\* An AddRef that registers the object whatever the count it reaches.
AddRefKeepsAlways(r) == r >= 1

\* 'if result == 1': the AddRef that registers the object.
AddRefKeeps(r) == r = 1

\* The end of an AddRef by thread t with call record r: a direct call
\* returns the count; inside CopyComPointer the pointer is then stored in
\* the caller's slot and S_OK returned.
AddRefDone(t, r) ==
  IF r.req # ""
    THEN Return("QueryInterface", t, r.cur, r.req, S_OK, r.ptr)
    ELSE Return("AddRef", t, r.cur, "", r.result, Unwritten)

\* The interlocked increment and the branch on its result, by thread t
\* whose call record is r.
Increment(t, o, r) ==
  LET new == _InterlockedIncrement(refcnt[o])
      r1 == [r EXCEPT !.cur = o, !.result = new]
  IN
    /\ refcnt' = [refcnt EXCEPT ![o] = new]
    /\ held' = [held EXCEPT ![t][o] = @ + 1]
    /\ IF AddRefKeeps(new)
         THEN th' = [th EXCEPT ![t] = [r1 EXCEPT !.pc = "keep"]] /\ last' = last
         ELSE th' = [th EXCEPT ![t] = IdleThread] /\ last' = AddRefDone(t, r1)

AddRefInc(t, o) ==
  /\ th[t].pc = "idle"
  /\ Increment(t, o, IdleThread)
  /\ ncalls' = ncalls + 1
  /\ UNCHANGED <<cls, pointers, instances, server, locks, misused, historyVars, unload>>

\* __keep__, first statement: the object enters the registry.
Keep(t) ==
  /\ th[t].pc = "keep"
  /\ instances' = instances \cup {th[t].cur}
  /\ keeps' = [keeps EXCEPT ![th[t].cur] = @ + 1]
  /\ th' = [th EXCEPT ![t].pc = "lock"]
  /\ UNCHANGED <<cls, refcnt, pointers, server, locks, last, ncalls, held, misused,
                 unkeeps, finals, unkeeper, unload>>

\* __keep__, second statement: the server, when there is one, is locked.
KeepLock(t) ==
  /\ th[t].pc = "lock"
  /\ locks' = IF server # "none" THEN _InterlockedIncrement(locks) ELSE locks
  /\ th' = [th EXCEPT ![t] = IdleThread]
  /\ last' = AddRefDone(t, th[t])
  /\ UNCHANGED <<cls, refcnt, pointers, instances, server, ncalls, held, misused,
                 historyVars, unload>>

\* ------------------------------------------------------ IUnknown_Release
\* 'if result == 0': the Release that finalizes the object.
ReleaseFinal(r) == r = 0

\* The interlocked decrement and the branch on its result.
ReleaseDec(t, o) ==
  LET new == _InterlockedDecrement(refcnt[o]) IN
    /\ th[t].pc = "idle"
    /\ refcnt' = [refcnt EXCEPT ![o] = new]
    /\ held' = [held EXCEPT ![t][o] = @ - 1]
    /\ misused' = (misused \/ held[t][o] <= 0)
    /\ IF ReleaseFinal(new)
         THEN /\ th' = [th EXCEPT ![t] = [IdleThread EXCEPT !.pc = "final", !.cur = o,
                                                            !.result = new]]
              /\ last' = last
         ELSE /\ th' = th
              /\ last' = Return("Release", t, o, "", new, Unwritten)
    /\ ncalls' = ncalls + 1
    /\ UNCHANGED <<cls, pointers, instances, server, locks, historyVars, unload>>

\* _final_release_ and the first statement of __unkeep__: the object leaves
\* the registry. 'del' of an absent key raises KeyError, which __unkeep__ does
\* not catch: the rest of Release is skipped and the adapted slot answers
\* E_FAIL.
Final(t) ==
  LET o == th[t].cur IN
    /\ th[t].pc = "final"
    /\ finals' = [finals EXCEPT ![o] = @ + 1]
    /\ unkeeps' = [unkeeps EXCEPT ![o] = @ + 1]
    /\ unkeeper' = [unkeeper EXCEPT ![o] = t]
    /\ IF o \in instances
         THEN /\ instances' = instances \ {o}
              /\ th' = [th EXCEPT ![t].pc = "unlock"]
              /\ last' = last
         ELSE /\ instances' = instances
              /\ th' = [th EXCEPT ![t] = IdleThread]
              /\ last' = Return("Release", t, o, "",
                                AsCLong(ReportException(PyInt(E_FAIL))), Unwritten)
    /\ UNCHANGED <<cls, refcnt, pointers, server, locks, ncalls, held, misused,
                   keeps, unload>>

\* A Release that leaves the entry of IUnknown in the table map.
ClearedButUnknown(ptrs) ==
  [k \in DOMAIN ptrs \cap {"IID_IUnknown"} |-> ptrs[k]]

\* 'self._com_pointers_ = {}'.
ClearedPointers(ptrs) == EmptyMap

\* __unkeep__, last statement, and the end of Release: the server, when there
\* is one, is unlocked, and the table map is emptied.
Unlock(t) ==
  /\ th[t].pc = "unlock"
  /\ locks' = IF server # "none" THEN _InterlockedDecrement(locks) ELSE locks
  /\ pointers' = [pointers EXCEPT ![th[t].cur] = ClearedPointers(@)]
  /\ th' = [th EXCEPT ![t] = IdleThread]
  /\ last' = Return("Release", t, th[t].cur, "", th[t].result, Unwritten)
  /\ UNCHANGED <<cls, refcnt, instances, server, ncalls, held, misused, historyVars,
                 unload>>

\* ----------------------------------------------- IUnknown_QueryInterface
\* A lookup that misses the identity of IUnknown.
QueryFoundDerived(ptrs, iid) == iid \in DOMAIN ptrs /\ iid # "IID_IUnknown"

\* self._com_pointers_.get(iid, None) is not None.
QueryFound(ptrs, iid) == iid \in DOMAIN ptrs

\* The lookup: a miss returns E_NOINTERFACE at once, the caller's slot left
\* alone; a hit goes on to CopyComPointer(ptr, ppvObj).
QILookup(t, o, iid) ==
  /\ th[t].pc = "idle"
  /\ IF QueryFound(pointers[o], iid)
       THEN /\ th' = [th EXCEPT ![t] = [IdleThread EXCEPT !.pc = "copy", !.cur = o,
                                          !.req = iid, !.ptr = pointers[o][iid]]]
            /\ last' = last
       ELSE /\ th' = th
            /\ last' = Return("QueryInterface", t, o, iid, E_NOINTERFACE, Unwritten)
  /\ ncalls' = ncalls + 1
  /\ UNCHANGED <<cls, refcnt, pointers, instances, server, locks, held, misused,
                 historyVars, unload>>

\* CopyComPointer: AddRef through the pointer found, then the pointer is
\* stored in the caller's slot and S_OK returned.
CopyComPointer(t) ==
  /\ th[t].pc = "copy"
  /\ Increment(t, th[t].cur, th[t])
  /\ UNCHANGED <<cls, pointers, instances, server, locks, ncalls, misused,
                 historyVars, unload>>

\* ------------------------------------------------------- specifications
\* The parts of the state a specification does not use stay as they start.
NoBuild ==
  /\ built = [done |-> FALSE]
  /\ nbuilt = 0
  /\ vtbl_types = EmptyMap
  /\ slotcall = [done |-> FALSE]
NoAdapted == adapted = [called |-> FALSE]
NoInvoke == invoke = [done |-> FALSE]
NoLocal == lserver = [pc |-> "none"]
NoCore == CoreInit({[o \in Objects |-> CoreClass(o)]})

Bounded == ncalls < MaxCalls
Aside == UNCHANGED <<buildVars, adapted, invoke, lserver>>

\* The identities the concurrent runs query: one that every object supports
\* and the all-zero identity, which none does.
CoreQueryIIDs == {"IID_IUnknown", GUID_NULL}

RunInprocServerStep == RunInprocServer /\ Aside
DllCanUnloadNowStep == DllCanUnloadNow /\ Aside
AddRefStep == Bounded /\ Aside /\ \E t \in Threads, o \in Objects : AddRefInc(t, o)
ReleaseStep == Bounded /\ Aside /\ \E t \in Threads, o \in Objects : ReleaseDec(t, o)
QueryStep ==
  Bounded /\ Aside /\ \E t \in Threads, o \in Objects, iid \in CoreQueryIIDs : QILookup(t, o, iid)
CopyStep == Aside /\ \E t \in Threads : CopyComPointer(t)
KeepStep == Aside /\ \E t \in Threads : Keep(t)
KeepLockStep == Aside /\ \E t \in Threads : KeepLock(t)
FinalStep == Aside /\ \E t \in Threads : Final(t)
UnlockStep == Aside /\ \E t \in Threads : Unlock(t)

Init == NoCore /\ NoBuild /\ NoAdapted /\ NoInvoke /\ NoLocal

\* Any thread calls AddRef, Release and QueryInterface on any object, the
\* calls interleaving statement by statement.
Next ==
  \/ RunInprocServerStep
  \/ DllCanUnloadNowStep
  \/ AddRefStep
  \/ ReleaseStep
  \/ QueryStep
  \/ CopyStep
  \/ KeepStep
  \/ KeepLockStep
  \/ FinalStep
  \/ UnlockStep

Spec == Init /\ [][Next]_vars

\* n threads each call AddRef on one object; once all these calls have
\* returned, each calls Release.
AddRefsReturned ==
  ncalls >= NumThreads /\ \A u \in Threads : th[u].pc \notin {"keep", "lock"}
PhasedAddRefStep ==
  ncalls < NumThreads /\ Aside /\ \E t \in Threads : held[t][1] = 0 /\ AddRefInc(t, 1)
PhasedReleaseStep ==
  AddRefsReturned /\ Aside /\ \E t \in Threads : held[t][1] = 1 /\ ReleaseDec(t, 1)

PhasedNext ==
  \/ RunInprocServerStep
  \/ DllCanUnloadNowStep
  \/ PhasedAddRefStep
  \/ PhasedReleaseStep
  \/ KeepStep
  \/ KeepLockStep
  \/ FinalStep
  \/ UnlockStep

SpecPhased == Init /\ [][PhasedNext]_vars

\* One thread calls AddRef, Release and QueryInterface, with every identity,
\* on objects of any class.
SeqInit ==
  /\ CoreInit({[o \in Objects |-> c] : c \in Configs})
  /\ NoBuild /\ NoAdapted /\ NoInvoke /\ NoLocal
SeqAddRefStep == Bounded /\ Aside /\ \E o \in Objects : AddRefInc(1, o)
SeqReleaseStep == Bounded /\ Aside /\ \E o \in Objects : ReleaseDec(1, o)
SeqQueryStep == Bounded /\ Aside /\ \E o \in Objects, iid \in AllIIDs : QILookup(1, o, iid)

SeqNext ==
  \/ SeqAddRefStep
  \/ SeqReleaseStep
  \/ SeqQueryStep
  \/ CopyStep
  \/ KeepStep
  \/ KeepLockStep
  \/ FinalStep
  \/ UnlockStep

SpecSeq == SeqInit /\ [][SeqNext]_vars

Quiescent == \A t \in Threads : th[t].pc = "idle"


\* -------------------------------------------------- construction of objects
MaxBuilt == 1

\* The native arguments of a call: one per declared parameter.
ArgBases == {1, 2, 5}
ArgsFor(n, b) == [i \in 1..n |-> b + i - 1]

\* COMObject.__new__: an object of class cfg is constructed, its tables
\* built by __prepare_comobject with the module's type cache. earlier: of
\* the classes of the objects constructed before, whether they define the
\* server's methods.
ConstructUpTo(cfg, max) ==
  LET r == prepare_comobject(cfg, vtbl_types) IN
    /\ nbuilt < max
    /\ built' = [done |-> TRUE, cfg |-> cfg, self |-> r.self,
                 earlier |-> IF built.done
                               THEN built.earlier \cup {built.cfg.implemented} ELSE {}]
    /\ vtbl_types' = r.cache
    /\ nbuilt' = nbuilt + 1
    /\ slotcall' = [done |-> FALSE]

Construct(cfg) == ConstructUpTo(cfg, MaxBuilt)

\* Whether slot s runs code of the server class or the stub, not a method
\* COMObject itself implements.
OwnSlot(attrs, s) ==
  s.impl.kind = "stub" \/ TargetMethod(attrs, s.impl.target).body # "core"

\* A native caller calls slot j of the table of interface k.
InvokeSlot(k, j, b) ==
  LET s == built.self.tables[k][j]
      attrs == Attrs(built.cfg)
      args == ArgsFor(Len(s.proto.argtypes), b)
  IN
    /\ OwnSlot(attrs, s)
    /\ slotcall' = [done |-> TRUE, itf |-> k, slot |-> j, args |-> args,
                    res |-> CallImpl(attrs, s.impl, args)]
    /\ UNCHANGED <<built, nbuilt, vtbl_types>>

ConstructStep ==
  /\ \E cfg \in Configs : Construct(cfg)
  /\ UNCHANGED <<coreVars, adapted, invoke, lserver>>

InvokeSlotStep ==
  /\ built.done
  /\ \E k \in DOMAIN built.self.tables :
       \E j \in 1..Len(built.self.tables[k]), b \in ArgBases : InvokeSlot(k, j, b)
  /\ UNCHANGED <<coreVars, adapted, invoke, lserver>>

BuildNext ==
  \/ ConstructStep
  \/ InvokeSlotStep

SpecBuild == Init /\ [][BuildNext]_vars

\* Objects of several classes constructed one after the other in one
\* process, sharing the module's type cache.
MaxInterned == 2

InternConfigs ==
  [com_interfaces : {<<"DTestDispServer">>, <<"IDispatch">>, <<"ICalc">>,
                     <<"ICalc2", "DTestDispServer">>},
   reg_clsid : {FALSE}, reg_typelib : {FALSE}, outgoing : {FALSE}, implemented : BOOLEAN]

InternConstructStep ==
  /\ \E cfg \in InternConfigs : ConstructUpTo(cfg, MaxInterned)
  /\ UNCHANGED <<coreVars, adapted, invoke, lserver>>

InternNext ==
  \/ InternConstructStep
  \/ InvokeSlotStep

SpecIntern == Init /\ [][InternNext]_vars

\* ------------------------------------------------------ adapted callables
MaxParams == 3
MaxArgc == 3

DirFlags == {0, F_IN, F_OUT, F_IN + F_OUT, F_OUT + 8}
RECURSIVE SeqsUpTo(_, _)
SeqsUpTo(S, n) ==
  IF n = 0 THEN {<<>>}
  ELSE LET shorter == SeqsUpTo(S, n - 1) IN
         shorter \cup {Append(s, x) : s \in {q \in shorter : Len(q) = n - 1}, x \in S}

CallBodies ==
  {"sum", "swap", "neg", "none", "int", "single", "pair", "triple",
   "E_NotImplemented", "RuntimeError"}

\* The codes an exception carries: a win32 error, an HRESULT built from one,
\* E_FAIL as an unsigned and as a signed value, a success-range value.
RaisedCodes == {<<0, 5>>, <<32775, 5>>, <<32768, 16389>>, <<-32768, 16389>>, <<1, 5>>}

\* Managed methods that raise ReturnHRESULT(code, "message") or
\* ReturnHRESULT(), COMError(code, "message", details), WindowsError with
\* or without a winerror.
RaisingMethods ==
  {Raising(t, n, e, hc, c, "message") :
     t \in BOOLEAN, n \in 0..1, e \in {"ReturnHRESULT", "COMError", "WindowsError"},
     hc \in BOOLEAN, c \in RaisedCodes}

\* The managed methods: with or without a 'this' parameter, of any arity.
CallMethods ==
  {Method(t, n, b) : t \in BOOLEAN, n \in 0..MaxArgc, b \in CallBodies}
    \cup {m \in RaisingMethods : (m.body = "COMError" => m.has_code)
                                  /\ (~m.has_code => m.code = <<0, 5>>)}

\* A managed method, the paramflags of the interface method it implements
\* (None for one declared by STDMETHOD), and the arguments of a native call.
CallInit ==
  \E m \in CallMethods, hp \in BOOLEAN, pf \in SeqsUpTo(DirFlags, MaxParams),
     n \in 0..MaxParams, b \in ArgBases :
    /\ hp => n = Len(pf)
    /\ ~hp => pf = <<>>
    /\ adapted = [called |-> FALSE, adapter |-> "", mth |-> m, has_paramflags |-> hp,
                  paramflags |-> pf, args |-> ArgsFor(n, b),
                  res |-> CallResult("none", S_OK, <<>>, FALSE, <<>>)]

\* hack(inst, mth, paramflags, interface, mthname).
Adapt ==
  /\ adapted.adapter = ""
  /\ adapted' = [adapted EXCEPT
                   !.adapter = hack(adapted.mth, adapted.has_paramflags,
                                    adapted.paramflags).kind]
  /\ UNCHANGED <<coreVars, buildVars, invoke, lserver>>

\* The native caller calls the adapted callable.
CallAdapted ==
  /\ adapted.adapter # "" /\ ~adapted.called
  /\ adapted' = [adapted EXCEPT
                   !.called = TRUE,
                   !.res = IF adapted.adapter = "with_this"
                             THEN call_with_this(adapted.mth, adapted.args)
                             ELSE call_without_this(adapted.mth, adapted.paramflags,
                                                    adapted.args)]
  /\ UNCHANGED <<coreVars, buildVars, invoke, lserver>>

CallNext ==
  \/ Adapt
  \/ CallAdapted

CallStart == NoCore /\ NoBuild /\ NoInvoke /\ NoLocal /\ CallInit

SpecCall == CallStart /\ [][CallNext]_vars

\* ------------------------------------------------------ IDispatch::Invoke
MaxDispArgs == 3

DISP_E_MEMBERNOTFOUND == -2147352573

\* What stands for the caller's result slot pVarResult in an argument list.
VarResult == -1

\* DISPPARAMS: the value array rgvarg, the member ids of the named
\* arguments, and the two counts. Python indexes both arrays from 0.
DispParams(rgvarg, named) ==
  [rgvarg |-> rgvarg, rgdispidNamedArgs |-> named, cArgs |-> Len(rgvarg),
   cNamedArgs |-> Len(named)]

\* params.rgvarg[i].value; the calls made here never index past the array.
VariantAt(params, i) == IF i < params.cArgs THEN params.rgvarg[i + 1] ELSE 0

\* The orders in which a caller can name the parameters of a set.
Perms(S) ==
  {p \in [1..Cardinality(S) -> S] : \A i, j \in 1..Cardinality(S) : i # j => p[i] # p[j]}

\* The argument blocks of well-formed calls: n distinct values, the named
\* arguments first in rgvarg, naming the parameters after the unnamed ones.
ParamBlocks ==
  UNION {{DispParams(ArgsFor(nc[1], 11), nm) : nm \in Perms((nc[1] - nc[2])..(nc[1] - 1))} :
           nc \in {x \in (0..MaxDispArgs) \X (0..MaxDispArgs) : x[2] <= x[1]}}

\* What Invoke did: "notfound", "DispInvoke" (the call was handed to
\* oleaut32) or "called" (a callable of the map got args after 'this').
InvokeResult(path, hr, kind, args, res) ==
  [path |-> path, hr |-> hr, kind |-> kind, args |-> args, res |-> res]

NoCall == CallResult("none", S_OK, <<>>, FALSE, <<>>)

\* A lookup that falls back to the entry of the other kinds of the member.
DispLookupAny(dispimpl, dispIdMember, wFlags) ==
  {k \in DOMAIN dispimpl : k[1] = dispIdMember}

\* self._dispimpl_[(dispIdMember, wFlags)]: the keys that answer.
DispLookup(dispimpl, dispIdMember, wFlags) ==
  {k \in DOMAIN dispimpl : k = <<dispIdMember, wFlags>>}

\* An unpacking that takes the values in the order of the array.
InvokeIndexesForward(params) == [k \in 1..params.cArgs |-> k - 1]

\* indexes = named_indexes + unnamed_indexes.
InvokeIndexes(params) ==
  LET num_unnamed == params.cArgs - params.cNamedArgs
      named_indexes == params.rgdispidNamedArgs
      unnamed_indexes == [k \in 1..num_unnamed |-> num_unnamed - k]
  IN named_indexes \o unnamed_indexes

\* A test that lets every callable have the result slot.
TakesResultAlways(pVarResult, mth) == pVarResult

\* 'pVarResult and getattr(mth, "has_outargs", False)'.
TakesResult(pVarResult, mth) == pVarResult /\ mth.has_outargs

\* The arguments after 'this': for a property-put the named values, last
\* first; otherwise the values at indexes, and the result slot if taken.
InvokeArgs(mth, wFlags, params, pVarResult) ==
  IF (wFlags \div 4) % 4 # 0
    THEN [k \in 1..params.cNamedArgs |-> VariantAt(params, params.cNamedArgs - k)]
    ELSE [k \in 1..params.cArgs |-> VariantAt(params, InvokeIndexes(params)[k])]
           \o (IF TakesResult(pVarResult, mth) THEN <<VarResult>> ELSE <<>>)

\* 'return mth(this, *args)'.
InvokeCall(mth, args, r) == InvokeResult("called", r.hr, mth.kind, args, r)

InvokeWith(attrs, mth, wFlags, params, pVarResult) ==
  InvokeCall(mth, InvokeArgs(mth, wFlags, params, pVarResult),
             CallImpl(attrs, mth, InvokeArgs(mth, wFlags, params, pVarResult)))

\* IDispatch_Invoke once self._dispimpl_ exists.
InvokeMap(attrs, dispimpl, dispIdMember, wFlags, params, pVarResult) ==
  IF DispLookup(dispimpl, dispIdMember, wFlags) = {}
    THEN InvokeResult("notfound", DISP_E_MEMBERNOTFOUND, "", <<>>, NoCall)
    ELSE InvokeWith(attrs, dispimpl[CHOOSE k \in DispLookup(dispimpl, dispIdMember, wFlags) : TRUE],
                    wFlags, params, pVarResult)

\* The member of the dispinterface, how the server class implements it, and
\* the class: with the dispinterface or with IDispatch alone, with or
\* without _reg_typelib_.
MemberId == 1
ArgSpecs ==
  {<<>>, <<{"in"}>>, <<{"in"}, {"in"}>>, <<{"in"}, {"in"}, {"in"}>>,
   <<{"in"}, {"out", "retval"}>>}
DispMembers ==
  {DISPMETHOD(MemberId, f, r, N_eval, a) :
     f \in {{}, {"propget"}, {"propput"}, {"propputref"}}, r \in BOOLEAN, a \in ArgSpecs}
    \cup {DISPPROPERTY(MemberId, f, r, N_eval) : f \in {{}, {"readonly"}}, r \in BOOLEAN}

DispItf(m) == DispItfDesc(N_DTestDispServer, "IID_DTestDispServer", "IDispatch", <<m>>)

\* The instance's attributes: nothing for the member, or a method under
\* each name the builder looks for, declaring 'this' or not.
DispAttrs(implemented, n) ==
  IF implemented = "none" THEN AttrsFrom(BaseAttrPairs)
  ELSE LET mth == IF implemented = "with_this" THEN Method(TRUE, n + 1, "s_ok")
                  ELSE Method(FALSE, n, "sum")
       IN AttrsFrom(BaseAttrPairs \cup
            {<<Fq(N_DTestDispServer, p \o N_eval), mth>> : p \in {<<>>, N_get, N_set, N_setref}})

InvokeInit ==
  \E disp \in BOOLEAN, tl \in BOOLEAN, m \in DispMembers,
     impl \in {"none", "with_this", "without_this"}, n \in 0..MaxDispArgs,
     id \in {MemberId, MemberId + 1},
     fl \in {DISPATCH_METHOD, DISPATCH_PROPERTYGET, DISPATCH_METHOD + DISPATCH_PROPERTYGET,
             DISPATCH_PROPERTYPUT, DISPATCH_PROPERTYPUTREF},
     p \in ParamBlocks, pv \in BOOLEAN :
    /\ disp => ~tl
    /\ ~disp => m = DISPMETHOD(MemberId, {}, FALSE, N_eval, <<>>) /\ impl = "none" /\ n = 0
    /\ impl = "none" => n = 0
    /\ impl # "none" => n = p.cArgs
    /\ invoke = [done |-> FALSE, has_disp |-> disp, reg_typelib |-> tl, member |-> m,
                 implemented |-> impl, argc |-> n,
                 dispIdMember |-> id, wFlags |-> fl, params |-> p, pVarResult |-> pv,
                 out |-> InvokeResult("", S_OK, "", <<>>, NoCall)]

\* The attributes of the object invoked, and the _dispimpl_ its
\* construction made.
InvokeAttrs == DispAttrs(invoke.implemented, invoke.argc)
InvokeDispimpl == make_dispimpl(InvokeAttrs, EmptyMap, DispItf(invoke.member))

\* What oleaut32.DispInvoke may hand back.
DispInvokeResults == {S_OK, DISP_E_MEMBERNOTFOUND}

\* Invoke on an object whose class has the dispinterface.
InvokeMapped ==
  /\ ~invoke.done /\ invoke.has_disp
  /\ invoke' = [invoke EXCEPT
                  !.done = TRUE,
                  !.out = InvokeMap(InvokeAttrs, InvokeDispimpl, invoke.dispIdMember,
                                    invoke.wFlags, invoke.params, invoke.pVarResult)]
  /\ UNCHANGED <<coreVars, buildVars, adapted, lserver>>

\* Invoke on an object without _dispimpl_: self.__typeinfo raises
\* AttributeError when the class has no _reg_typelib_.
InvokeUnmapped ==
  /\ ~invoke.done /\ ~invoke.has_disp
  /\ \E r \in DispInvokeResults :
       invoke' = [invoke EXCEPT
                    !.done = TRUE,
                    !.out = IF invoke.reg_typelib
                              THEN InvokeResult("DispInvoke", r, "", <<>>, NoCall)
                              ELSE InvokeResult("notfound", DISP_E_MEMBERNOTFOUND, "", <<>>,
                                                NoCall)]
  /\ UNCHANGED <<coreVars, buildVars, adapted, lserver>>

InvokeNext ==
  \/ InvokeMapped
  \/ InvokeUnmapped

InvokeStart == NoCore /\ NoBuild /\ NoAdapted /\ NoLocal /\ InvokeInit

SpecInvoke == InvokeStart /\ [][InvokeNext]_vars

\* ------------------------------------------------------------ LocalServer
MaxLocks == 3

RPC_E_CHANGED_MODE == -2147417850

\* COMObject.__run_localserver__ has made the LocalServer and calls its
\* run(). pc: where the thread in run() stands; has_queue, queue:
\* self._queue; count: the process's server lock count, kept by ole32; quit:
\* quit messages posted; client: per calling thread, whether it stands
\* between CoReleaseServerProcess returning 0 and the signal; nlocks: calls
\* of Lock; zeroed: some Unlock brought the count to zero; returned: the
\* blocking call of run() has returned; revoked: the class objects are
\* revoked.
LocalInit ==
  lserver = [pc |-> "run", has_queue |-> FALSE, queue |-> <<>>, count |-> 0, quit |-> 0,
             client |-> [t \in Threads |-> "idle"], nlocks |-> 0, zeroed |-> FALSE,
             returned |-> FALSE, revoked |-> FALSE]

LocalAside == UNCHANGED <<coreVars, buildVars, adapted, invoke>>

\* run(): CoInitialize(None) tells whether the thread is in the MTA.
LS_run ==
  /\ lserver.pc = "run"
  /\ \E result \in {RPC_E_CHANGED_MODE, S_OK, S_FALSE} :
       lserver' = [lserver EXCEPT
                     !.pc = IF result = RPC_E_CHANGED_MODE THEN "run_mta" ELSE "run_sta"]
  /\ LocalAside

\* run_mta(): self._queue = queue.Queue().
LS_run_mta ==
  /\ lserver.pc = "run_mta"
  /\ lserver' = [lserver EXCEPT !.pc = "get", !.has_queue = TRUE, !.queue = <<>>]
  /\ LocalAside

\* run_mta(): self._queue.get() returns once the queue holds an item.
LS_get ==
  /\ lserver.pc = "get" /\ lserver.queue # <<>>
  /\ lserver' = [lserver EXCEPT !.pc = "revoke", !.queue = Tail(lserver.queue),
                                !.returned = TRUE]
  /\ LocalAside

\* run_sta(): messageloop.run() returns once a quit message was posted.
LS_run_sta ==
  /\ lserver.pc = "run_sta" /\ lserver.quit > 0
  /\ lserver' = [lserver EXCEPT !.pc = "revoke", !.returned = TRUE]
  /\ LocalAside

\* run(): 'for obj in classobjects: obj._revoke_class()'.
LS_revoke ==
  /\ lserver.pc = "revoke"
  /\ lserver' = [lserver EXCEPT !.pc = "done", !.revoked = TRUE]
  /\ LocalAside

\* Lock(): CoAddRefServerProcess().
LS_Lock(t) ==
  /\ lserver.pc # "none" /\ lserver.client[t] = "idle" /\ lserver.nlocks < MaxLocks
  /\ lserver' = [lserver EXCEPT !.count = @ + 1, !.nlocks = @ + 1]
  /\ LocalAside

\* Unlock(): rc = CoReleaseServerProcess().
LS_Unlock(t) ==
  /\ lserver.pc # "none" /\ lserver.client[t] = "idle" /\ lserver.count > 0
  /\ lserver' = [lserver EXCEPT
                   !.count = @ - 1,
                   !.client[t] = IF lserver.count - 1 = 0 THEN "signal" ELSE "idle",
                   !.zeroed = @ \/ lserver.count - 1 = 0]
  /\ LocalAside

\* Unlock(), rc == 0: the item goes to self._queue if there is one, else a
\* quit message is posted.
LS_Signal(t) ==
  /\ lserver.client[t] = "signal"
  /\ lserver' = [lserver EXCEPT
                   !.client[t] = "idle",
                   !.queue = IF lserver.has_queue THEN Append(@, 42) ELSE @,
                   !.quit = IF lserver.has_queue THEN @ ELSE @ + 1]
  /\ LocalAside

LS_LockStep == \E t \in Threads : LS_Lock(t)
LS_UnlockStep == \E t \in Threads : LS_Unlock(t)
LS_SignalStep == \E t \in Threads : LS_Signal(t)

LocalNext ==
  \/ LS_run
  \/ LS_run_mta
  \/ LS_get
  \/ LS_run_sta
  \/ LS_revoke
  \/ LS_LockStep
  \/ LS_UnlockStep
  \/ LS_SignalStep

LocalStart == NoCore /\ NoBuild /\ NoAdapted /\ NoInvoke /\ LocalInit

\* Every thread that can take a step of run() or finish its Unlock
\* eventually does: the threads are scheduled by the operating system.
LocalFair ==
  /\ WF_vars(LS_run) /\ WF_vars(LS_run_mta) /\ WF_vars(LS_get) /\ WF_vars(LS_run_sta)
  /\ WF_vars(LS_revoke) /\ WF_vars(LS_SignalStep)

SpecLocal == LocalStart /\ [][LocalNext]_vars /\ LocalFair

\* --------------------------------------------- the maps of a live object
\* The class of TestDispServer: a dispinterface, its methods defined.
MapsClass ==
  [com_interfaces |-> <<"DTestDispServer">>, reg_clsid |-> FALSE, reg_typelib |-> FALSE,
   outgoing |-> FALSE, implemented |-> TRUE]

\* The objects are constructed: _com_pointers_ and _dispimpl_ are what
\* __prepare_comobject made.
MapsInit ==
  /\ CoreInit({[o \in Objects |-> MapsClass]})
  /\ NoBuild /\ NoAdapted /\ NoLocal
  /\ invoke = [done |-> FALSE,
               dispimpl |-> prepare_comobject(MapsClass, EmptyMap).self.dispimpl,
               out |-> InvokeResult("", S_OK, "", <<>>, NoCall)]

MapsParams == {p \in ParamBlocks : p.cArgs <= 1}

\* IDispatch_Invoke on the object: it looks the member up in _dispimpl_ and
\* calls what it finds.
MapsInvoke ==
  /\ \E id \in {10, 13, 14, 99},
        fl \in {DISPATCH_METHOD, DISPATCH_PROPERTYGET, DISPATCH_PROPERTYPUT},
        p \in MapsParams, pv \in BOOLEAN :
       invoke' = [invoke EXCEPT
                    !.done = TRUE,
                    !.out = InvokeMap(Attrs(MapsClass), invoke.dispimpl, id, fl, p, pv)]
  /\ UNCHANGED <<coreVars, buildVars, adapted, lserver>>

MapsNext ==
  \/ AddRefStep
  \/ ReleaseStep
  \/ QueryStep
  \/ CopyStep
  \/ KeepStep
  \/ KeepLockStep
  \/ FinalStep
  \/ UnlockStep
  \/ MapsInvoke

SpecMaps == MapsInit /\ [][MapsNext]_vars

\* ------------------------------------------------- resolving one member
\* The members resolved: the method SetName, and the property 'name' read
\* and written, under the names __make_dispmthentry looks for.
FindMembers ==
  { [mthname |-> N_SetName, idlflags |-> {}, prop |-> <<>>],
    [mthname |-> N_get \o N_name, idlflags |-> {"propget"}, prop |-> N_name],
    [mthname |-> N_set \o N_name, idlflags |-> {"propput"}, prop |-> N_name] }

\* The attributes an instance may have for a member: the qualified and the
\* bare name, as spelled by the interface and in another letter case, and
\* the plain attribute of a property.
FindNames(m) ==
  IF m.prop = <<>>
    THEN {Fq(N_DTestDispServer, N_SetName), N_SetName,
          Fq(N_DTestDispServer, N_sEtNaMe), N_sEtNaMe}
    ELSE {Fq(N_DTestDispServer, m.mthname), m.mthname, m.prop}

\* dir(inst) of an instance that has the attributes 'has': the methods take
\* the declared inputs, the plain attribute holds a value.
FindAttrs(has, n) ==
  AttrsFrom(BaseAttrPairs
              \cup {<<a, IF a = N_name THEN Data(7) ELSE Method(FALSE, n, "none")>> : a \in has})

FindParamflags == {<<>>, <<F_IN>>, <<F_OUT>>, <<F_IN, F_IN>>, <<F_IN, F_OUT>>}

\* A finder of an instance, and the member get_impl is asked for:
\* paramflags is None (has_paramflags FALSE) or a tuple.
FindInit ==
  \E m \in FindMembers, ci \in BOOLEAN, hp \in BOOLEAN, pf \in FindParamflags :
    \E has \in SUBSET FindNames(m) :
      /\ ~hp => pf = <<>>
      /\ adapted = [called |-> FALSE, adapter |-> "", member |-> m,
                    case_insensitive |-> ci, has |-> has,
                    has_paramflags |-> hp, paramflags |-> pf,
                    impl |-> Impl("", [kind |-> "None", name |-> NoName], hp, pf, FALSE),
                    res |-> CallResult("none", S_OK, <<>>, FALSE, <<>>)]

FindInterface ==
  [name |-> N_DTestDispServer, case_insensitive |-> adapted.case_insensitive]
FindInstance ==
  FindAttrs(adapted.has, Len(args_in_idx(adapted.paramflags)))

\* finder.get_impl(interface, mthname, paramflags, idlflags); adapter
\* "raise": the call raised.
Resolve ==
  /\ adapted.adapter = ""
  /\ adapted' = [adapted EXCEPT
                   !.impl = get_impl(FindInstance, FindInterface, adapted.member.mthname,
                                     adapted.has_paramflags, adapted.paramflags,
                                     adapted.member.idlflags),
                   !.adapter = get_impl(FindInstance, FindInterface, adapted.member.mthname,
                                        adapted.has_paramflags, adapted.paramflags,
                                        adapted.member.idlflags).kind]
  /\ UNCHANGED <<coreVars, buildVars, invoke, lserver>>

\* A native caller calls the callable get_impl returned.
CallResolved ==
  /\ adapted.adapter \notin {"", "raise"} /\ ~adapted.called
  /\ adapted' = [adapted EXCEPT
                   !.called = TRUE,
                   !.res = CallImpl(FindInstance, adapted.impl,
                                    ArgsFor(Len(adapted.paramflags), 1))]
  /\ UNCHANGED <<coreVars, buildVars, invoke, lserver>>

FindNext ==
  \/ Resolve
  \/ CallResolved

FindStart == NoCore /\ NoBuild /\ NoInvoke /\ NoLocal /\ FindInit

SpecFind == FindStart /\ [][FindNext]_vars

\* ----------------------------------------- objects with several dispinterfaces
\* Classes whose _com_interfaces_ names one or both dispinterfaces, in either
\* order and with other interfaces between them.
DispatchConfigs ==
  [com_interfaces : {<<"DTestDispServer">>, <<"DTestDispServerEvents">>,
                     <<"DTestDispServer", "DTestDispServerEvents">>,
                     <<"DTestDispServerEvents", "DTestDispServer">>,
                     <<"DTestDispServer", "ICalc", "DTestDispServerEvents">>,
                     <<"DTestDispServerEvents", "IProvideClassInfo2", "DTestDispServer">>},
   reg_clsid : {FALSE}, reg_typelib : {FALSE}, outgoing : {FALSE}, implemented : BOOLEAN]

\* The member ids and the kinds a late-bound caller asks with.
DispatchIds == {10, 12, 13, 14, 20, 21, 30}
DispatchKinds ==
  {DISPATCH_METHOD, DISPATCH_PROPERTYGET, DISPATCH_METHOD + DISPATCH_PROPERTYGET,
   DISPATCH_PROPERTYPUT}

\* An object is constructed; no Invoke has been made on it yet.
DispatchConstructStep ==
  /\ \E cfg \in DispatchConfigs : Construct(cfg)
  /\ invoke' = [done |-> FALSE]
  /\ UNCHANGED <<coreVars, adapted, lserver>>

\* IDispatch_Invoke on the object constructed, which has _dispimpl_.
DispatchInvokeStep ==
  /\ ~invoke.done /\ built.done /\ ~built.self.raised /\ built.self.has_dispimpl
  /\ \E id \in DispatchIds, fl \in DispatchKinds, p \in ParamBlocks, pv \in BOOLEAN :
       invoke' = [done |-> TRUE, dispIdMember |-> id, wFlags |-> fl, params |-> p,
                  pVarResult |-> pv,
                  out |-> InvokeMap(Attrs(built.cfg), built.self.dispimpl, id, fl, p, pv)]
  /\ UNCHANGED <<coreVars, buildVars, adapted, lserver>>

DispatchNext ==
  \/ DispatchConstructStep
  \/ DispatchInvokeStep

SpecDispatch == Init /\ [][DispatchNext]_vars

\* ----------------------------------------------------- HRESULT_FROM_WIN32
\* The codes converted: None, and unsigned 32-bit integers whose halves are
\* taken from these, with and without bit 31, facility and severity bits.
Win32High == {0, 1, 7, 32767, 32768, 32775, 49152, 65535}
Win32Low == {0, 1, 5, 1223, 16389, 32768, 65534, 65535}

\* Bit 31 of a Python int.
Bit31(p) == (p[1] \div 32768) % 2 = 1

HresultInit ==
  \E none \in BOOLEAN, hi \in Win32High, lo \in Win32Low :
    /\ none => (hi = 0 /\ lo = 0)
    /\ adapted = [called |-> FALSE, applied |-> 0, is_none |-> none, errcode |-> <<hi, lo>>,
                  once |-> <<0, 0>>, twice |-> <<0, 0>>]

\* hr = HRESULT_FROM_WIN32(errcode).
ConvertOnce ==
  /\ adapted.applied = 0
  /\ adapted' = [adapted EXCEPT !.called = TRUE, !.applied = 1,
                   !.once = HRESULT_FROM_WIN32(adapted.is_none, adapted.errcode)]
  /\ UNCHANGED <<coreVars, buildVars, invoke, lserver>>

\* HRESULT_FROM_WIN32(hr).
ConvertTwice ==
  /\ adapted.applied = 1
  /\ adapted' = [adapted EXCEPT !.applied = 2,
                   !.twice = HRESULT_FROM_WIN32(FALSE, adapted.once)]
  /\ UNCHANGED <<coreVars, buildVars, invoke, lserver>>

HresultNext ==
  \/ ConvertOnce
  \/ ConvertTwice

HresultStart == NoCore /\ NoBuild /\ NoInvoke /\ NoLocal /\ HresultInit

SpecHresult == HresultStart /\ [][HresultNext]_vars

\* ================================================== reference counting
PhasedDone == ncalls = 2 * NumThreads /\ Quiescent

\* C1: when n references are taken and, after all n increments have
\* completed, n references are released, the count ends at zero, the object
\* was registered exactly once and deregistered exactly once, and the
\* deregistration was made by the Release call that returned zero.
C1_CountedLifetime ==
  /\ keeps[1] <= 1 /\ unkeeps[1] <= 1
  /\ (last.op = "Release" => (last.ret = 0 <=> unkeeper[1] = last.t))
  /\ PhasedDone =>
       /\ refcnt[1] = 0
       /\ keeps[1] = 1 /\ unkeeps[1] = 1
       /\ 1 \notin instances
       /\ unkeeper[1] \in Threads

C1_Witness ==
  /\ PhasedDone
  /\ keeps[1] = 1 /\ unkeeps[1] = 1
  /\ last.op = "Release" /\ last.ret = 0 /\ unkeeper[1] = last.t

\* C2: whenever no call is in progress, and every thread has released only
\* references it holds, an object is in the registry exactly when its
\* reference count is not zero.
C2_RegistryIffCounted ==
  (Quiescent /\ ~misused) => \A o \in Objects : (o \in instances <=> refcnt[o] # 0)

\* C3: the reference count of an object is never negative, for any sequence
\* of calls.
C3_NeverNegative == \A o \in Objects : refcnt[o] >= 0

\* C3, amended: the reference count of an object is never negative as long as
\* every thread has released only references it holds.
C3_NeverNegativeHeld == ~misused => \A o \in Objects : refcnt[o] >= 0

C3_Witness ==
  /\ ~misused
  /\ \E o \in Objects : refcnt[o] = 0 /\ finals[o] = 1 /\ last.op = "Release" /\ last.obj = o

\* C4: _final_release_ runs at most once for an object, and an object is
\* never in the registry again after it has run.
C4_FinalOnce ==
  \A o \in Objects : finals[o] <= 1 /\ (finals[o] >= 1 => o \notin instances)

\* ===================================================== QueryInterface
\* The declared-plus-default interface set of a class.
DefaultSet(cfg) ==
  {"ISupportErrorInfo"}
    \cup (IF cfg.reg_clsid THEN {"IPersist"} ELSE {})
    \cup (IF cfg.reg_clsid /\ cfg.reg_typelib THEN {"IProvideClassInfo"} ELSE {})
    \cup (IF cfg.reg_clsid /\ cfg.reg_typelib /\ cfg.outgoing
            THEN {"IProvideClassInfo2"} ELSE {})

\* Its identities, with those of the base chains.
SupportedIIDs(cfg) ==
  LET set == Range(cfg.com_interfaces) \cup DefaultSet(cfg) IN
    {Interface(b).iid : b \in UNION {Range(MroBaseFirst(k)) : k \in set}}

QueryAnswered(o) == last.op = "QueryInterface" /\ last.obj = o

QueryAsSpecified(o) ==
  IF last.req \in SupportedIIDs(cls[o])
    THEN /\ last.ret = S_OK
         /\ last.ppv \in ItfKeys
         /\ last.req \in {Interface(b).iid : b \in Range(MroBaseFirst(last.ppv))}
    ELSE last.ret = E_NOINTERFACE /\ last.ppv = Unwritten

C6_UnloadQuery ==
  [][unload' # unload =>
       /\ unload'.hr = (IF locks = 0 /\ instances = {} THEN S_OK ELSE S_FALSE)
       /\ locks' = locks /\ instances' = instances]_vars

\* Ready again: the query answers S_OK after an object was registered under
\* the server and deregistered.
C6_Witness ==
  /\ unload.asked /\ unload.hr = S_OK
  /\ server = "inproc"
  /\ \E o \in Objects : keeps[o] >= 1 /\ unkeeps[o] >= 1 /\ refcnt[o] = 0

\* ======================================================= interface tables
\* The inheritance chain of an interface, base first, by its base links.
RECURSIVE BaseChain(_)
BaseChain(k) ==
  IF Interface(k).base = "object" THEN <<k>>
  ELSE Append(BaseChain(Interface(k).base), k)

\* The methods of a chain, interface by interface, in declaration order.
RECURSIVE ChainMethods(_)
ChainMethods(chain) ==
  IF chain = <<>> THEN <<>>
  ELSE [j \in 1..Len(Interface(Head(chain)).methods) |->
          <<Head(chain), Interface(Head(chain)).methods[j].name>>]
       \o ChainMethods(Tail(chain))

\* C7: the table built for an interface has as many slots as its chain has
\* methods, the slots are those methods base interface first and in
\* declaration order, and the identity list of the table holds the identity
\* of every interface of the chain.
C7_TableLayout ==
  built.done =>
    \A k \in DOMAIN built.self.tables :
      LET slots == built.self.tables[k]
          expected == ChainMethods(BaseChain(k))
      IN
        /\ Len(slots) = Len(expected)
        /\ \A j \in 1..Len(slots) : <<slots[j].interface, slots[j].name>> = expected[j]
        /\ \A b \in Range(BaseChain(k)) : Interface(b).iid \in Range(built.self.iids[k])

C7_Witness ==
  /\ built.done
  /\ "ICalc2" \in DOMAIN built.self.tables
  /\ Len(built.self.tables["ICalc2"]) = 7
  /\ built.self.tables["ICalc2"][7].name = N_Neg

\* Nothing in the instance implements the method: neither its qualified nor
\* its bare name is an attribute.
Unimplemented(attrs, s) ==
  /\ Fq(Interface(s.interface).name, s.name) \notin DOMAIN attrs
  /\ s.name \notin DOMAIN attrs

\* C8: every slot of every table holds a callable; a method without
\* implementation gets the stub, and a call of that slot returns E_NOTIMPL,
\* writes no output argument and raises nothing.
C8_StubSlots ==
  built.done =>
    /\ \A k \in DOMAIN built.self.tables :
         \A j \in 1..Len(built.self.tables[k]) :
           LET s == built.self.tables[k][j] IN
             /\ s.impl.kind \in {"stub", "with_this", "without_this"}
             /\ Unimplemented(Attrs(built.cfg), s) => s.impl.kind = "stub"
    /\ (slotcall.done /\ built.self.tables[slotcall.itf][slotcall.slot].impl.kind = "stub") =>
         /\ slotcall.res.hr = E_NOTIMPL
         /\ slotcall.res.raised = "none"
         /\ \A i \in 1..Len(slotcall.res.outs) : ~slotcall.res.outs[i].written

C8_Witness ==
  /\ built.done /\ slotcall.done
  /\ built.self.tables[slotcall.itf][slotcall.slot].name = N_Foo
  /\ built.cfg.implemented
  /\ slotcall.res.hr = E_NOTIMPL

\* ====================================================== adapted callables
\* The positions of the output parameters and the input arguments, in
\* declared order.
RECURSIVE OutputsOf(_, _)
OutputsOf(flags, n) ==
  IF n = 0 THEN <<>>
  ELSE OutputsOf(flags, n - 1) \o (IF (flags[n] \div 2) % 2 = 1 THEN <<n>> ELSE <<>>)

RECURSIVE InputsOf(_, _, _)
InputsOf(flags, args, n) ==
  IF n = 0 THEN <<>>
  ELSE InputsOf(flags, args, n - 1)
       \o (IF flags[n] = 0 \/ flags[n] % 2 = 1 THEN <<args[n]>> ELSE <<>>)

\* What the managed method of the call returns when it is called as its
\* signature asks: with the identity pointer and every argument if it
\* declares 'this', with the inputs only if not.
ManagedResult ==
  IF adapted.mth.this
    THEN MthCall(adapted.mth, TRUE, adapted.args)
    ELSE MthCall(adapted.mth, FALSE,
                 InputsOf(adapted.paramflags, adapted.args, Len(adapted.paramflags)))

SeveralOutputs ==
  /\ adapted.called /\ adapted.has_paramflags
  /\ Len(OutputsOf(adapted.paramflags, Len(adapted.paramflags))) > 1

\* With k > 1 outputs: a returned sequence of length k is written element by
\* element to the output slots in declared order and the code is S_OK; a
\* sequence of another length gives a failure code that is not E_NOTIMPL
\* and no slot is written.
SequenceMapped ==
  LET out == OutputsOf(adapted.paramflags, Len(adapted.paramflags))
      r == ManagedResult
      res == adapted.res
  IN
    (r.exc = "none" /\ r.val.tag = "tuple") =>
      IF Len(r.val.items) = Len(out)
        THEN /\ res.hr = S_OK
             /\ \A i \in 1..Len(out) : res.outs[out[i]] = Written(IntVal(r.val.items[i]))
             /\ \A p \in 1..Len(res.outs) : p \notin Range(out) => ~res.outs[p].written
        ELSE /\ res.hr < 0 /\ res.hr # E_NOTIMPL
             /\ \A p \in 1..Len(res.outs) : ~res.outs[p].written

\* C9: a managed method adapted by hack whose interface declares k > 1
\* output parameters has the sequence it returns mapped to the output slots
\* as above.
C9_SequenceResult == SeveralOutputs => SequenceMapped

\* C9, amended: the same, for a managed method whose first declared
\* parameter is not the identity pointer.
C9_SequenceResultNoThis == (SeveralOutputs /\ ~adapted.mth.this) => SequenceMapped

C9_Witness ==
  /\ SeveralOutputs /\ ~adapted.mth.this
  /\ adapted.mth.body = "triple"
  /\ adapted.paramflags = <<F_IN, F_OUT, F_OUT>>
  /\ adapted.res.hr = E_FAIL

\* The managed method gets exactly the input arguments, in declared order
\* and without the identity pointer; with one output parameter its return
\* value is written to that slot; when it completes normally the code is
\* S_OK.
InputsOnly ==
  LET out == OutputsOf(adapted.paramflags, Len(adapted.paramflags))
      r == ManagedResult
      res == adapted.res
  IN
    /\ ~res.passed_this
    /\ res.passed = InputsOf(adapted.paramflags, adapted.args, Len(adapted.paramflags))
    /\ (r.exc = "none" /\ Len(out) = 1) => res.outs[out[1]] = Written(r.val)
    /\ (r.exc = "none" /\ Len(out) <= 1) => res.hr = S_OK

\* C10: a managed method whose first declared parameter is not the identity
\* pointer is called with the input arguments only, its return value goes
\* to the one output slot, and the code is S_OK.
C10_InputsOnly == (adapted.called /\ ~adapted.mth.this) => InputsOnly

\* C10, amended: the same, when the interface method carries parameter
\* flags.
C10_InputsOnlyFlagged ==
  (adapted.called /\ ~adapted.mth.this /\ adapted.has_paramflags) => InputsOnly

\* Add(a = 2, b = 3) gives S_OK and the sum 5.
C10_Witness ==
  /\ adapted.called /\ ~adapted.mth.this /\ adapted.has_paramflags
  /\ adapted.mth.body = "sum"
  /\ adapted.paramflags = <<F_IN, F_IN, F_OUT>>
  /\ adapted.args[1] = 2 /\ adapted.args[2] = 3
  /\ adapted.res.hr = S_OK
  /\ adapted.res.outs[3] = Written(IntVal(5))

\* ========================================================= failures
\* What the managed method of the call does when it is called as the
\* adapter calls it.
ActualResult ==
  IF adapted.adapter = "with_this"
    THEN MthCall(adapted.mth, TRUE, adapted.args)
    ELSE MthCall(adapted.mth, FALSE,
                 InputsOf(adapted.paramflags, adapted.args, Len(adapted.paramflags)))

RaisedReturnHRESULT ==
  /\ adapted.called
  /\ ActualResult.exc = "ReturnHRESULT" /\ ActualResult.has_code

\* C11: when the managed method raises ReturnHRESULT with code X and a
\* message, the adapted callable returns X and the message is attached, in
\* the pass-through branch and in the adapting branch.
C11_ReturnHRESULT ==
  RaisedReturnHRESULT =>
    /\ adapted.res.raised = "none"
    /\ adapted.res.hr = AsCLong(adapted.mth.code)
    /\ adapted.res.errinfo = ErrorInfo(adapted.mth.text)

C11_Witness ==
  /\ RaisedReturnHRESULT
  /\ adapted.adapter = "without_this"
  /\ adapted.mth.code = <<32775, 5>>
  /\ adapted.res.hr = -2147024891
  /\ adapted.res.errinfo.text = "message"

\* C12: no failure unwinds past an adapted callable: whatever the managed
\* method raises, and whatever the arguments, the callable returns a result
\* code, and a failure that is none of ReturnHRESULT, COMError, WindowsError
\* and E_NotImplemented gives E_FAIL.
C12_NothingUnwinds ==
  adapted.called =>
    /\ adapted.res.raised = "none"
    /\ ActualResult.exc \in {"TypeError", "RuntimeError"} => adapted.res.hr = E_FAIL

\* ------------------------------------------------- claims: dynamic invocation
\* A method or property-get invocation reached an adapted callable of the map.
MethodOrGetCalled ==
  /\ invoke.done /\ invoke.out.path = "called" /\ invoke.out.kind # "stub"
  /\ (invoke.wFlags \div 4) % 4 = 0

\* The values handed over, without the result slot.
InvokeValues == SubSeq(invoke.out.args, 1, invoke.params.cArgs)

\* C13: for a method or property-get invocation the callable receives every
\* supplied value exactly once, each named argument at its declared index
\* and the unnamed ones, highest index of the value array first, in the
\* positions before them.
C13_ArgumentOrder ==
  MethodOrGetCalled =>
    LET p == invoke.params
        vals == InvokeValues
        num_unnamed == p.cArgs - p.cNamedArgs
    IN /\ Len(invoke.out.args) >= p.cArgs
       /\ \A i \in 1..p.cNamedArgs : vals[p.rgdispidNamedArgs[i] + 1] = p.rgvarg[i]
       /\ \A k \in 1..num_unnamed : vals[k] = p.rgvarg[p.cArgs - k + 1]
       /\ \A j \in 1..p.cArgs : Cardinality({k \in 1..p.cArgs : vals[k] = p.rgvarg[j]}) = 1

\* The callable Invoke found, and whether a declared parameter of its
\* member has the 'out' bit.
InvokedEntry == InvokeDispimpl[<<invoke.dispIdMember, invoke.wFlags>>]
DeclaresOut == \E i \in 1..Len(InvokedEntry.paramflags) : IsOut(InvokedEntry.paramflags[i])
GotResultSlot == \E k \in 1..Len(invoke.out.args) : invoke.out.args[k] = VarResult

\* C14: the callable gets the caller's result slot, as its last argument,
\* exactly when the kind is method or property-get, the caller gave a result
\* slot and the callable is marked has_outargs; a callable the adapter made
\* has the mark exactly when a declared parameter has the 'out' bit; a
\* property-put, by value or by reference, gets the named arguments and
\* never the result slot.
C14_ResultSlot ==
  (invoke.done /\ invoke.out.path = "called") =>
    LET args == invoke.out.args
        p == invoke.params
        put == (invoke.wFlags \div 4) % 4 # 0
    IN /\ GotResultSlot <=> (~put /\ invoke.pVarResult /\ InvokedEntry.has_outargs)
       /\ GotResultSlot =>
            /\ args[Len(args)] = VarResult
            /\ Cardinality({k \in 1..Len(args) : args[k] = VarResult}) = 1
       /\ InvokedEntry.kind # "stub" => (InvokedEntry.has_outargs <=> DeclaresOut)
       /\ put => /\ Len(args) = p.cNamedArgs
                 /\ \A k \in 1..Len(args) : \E i \in 1..p.cNamedArgs : args[k] = p.rgvarg[i]

C14_Witness ==
  /\ invoke.done /\ invoke.out.path = "called" /\ invoke.out.kind = "without_this"
  /\ invoke.wFlags = DISPATCH_PROPERTYGET /\ invoke.pVarResult /\ DeclaresOut
  /\ invoke.params.cArgs = 1
  /\ invoke.out.args = <<11, VarResult>>
  /\ invoke.out.res.outs[2].written

C14_PutWitness ==
  /\ invoke.done /\ invoke.out.path = "called" /\ invoke.wFlags = DISPATCH_PROPERTYPUT
  /\ invoke.pVarResult /\ InvokedEntry.has_outargs /\ invoke.params.cArgs = 2
  /\ invoke.params.cNamedArgs = 1 /\ invoke.out.args = <<11>>

\* C15: with a dispatch map, a (member id, kind) pair that is not a key of
\* the map gives DISP_E_MEMBERNOTFOUND and no managed method is called;
\* without a dispatch map the call goes to DispInvoke when the object has
\* type information, and gives DISP_E_MEMBERNOTFOUND when it has none.
C15_MemberNotFound ==
  invoke.done =>
    /\ (invoke.has_disp /\ <<invoke.dispIdMember, invoke.wFlags>> \notin DOMAIN InvokeDispimpl)
         => /\ invoke.out.path = "notfound"
            /\ invoke.out.hr = DISP_E_MEMBERNOTFOUND
            /\ invoke.out.res = NoCall
    /\ (~invoke.has_disp /\ invoke.reg_typelib) => invoke.out.path = "DispInvoke"
    /\ (~invoke.has_disp /\ ~invoke.reg_typelib)
         => /\ invoke.out.path = "notfound"
            /\ invoke.out.hr = DISP_E_MEMBERNOTFOUND

C15_Witness ==
  /\ invoke.done /\ invoke.has_disp /\ invoke.implemented = "with_this"
  /\ invoke.dispIdMember = MemberId /\ invoke.wFlags = DISPATCH_PROPERTYPUT
  /\ DOMAIN InvokeDispimpl = {<<MemberId, DISPATCH_PROPERTYGET>>,
                              <<MemberId, DISPATCH_METHOD + DISPATCH_PROPERTYGET>>}
  /\ invoke.out.hr = DISP_E_MEMBERNOTFOUND

\* ------------------------------------------------- claims: construction
\* The defaults as the claim lists them.
ClaimedDefaults(cfg) ==
  {"ISupportErrorInfo"}
    \cup (IF cfg.reg_clsid THEN {"IPersist", "IProvideClassInfo"} ELSE {})
    \cup (IF cfg.reg_clsid /\ cfg.outgoing THEN {"IProvideClassInfo2"} ELSE {})

\* The object returned has a table for exactly the declared interfaces and
\* the defaults, each once, and an entry in _com_pointers_ for each.
SupportedSetIs(defaults) ==
  LET set == Range(built.cfg.com_interfaces) \cup defaults
      interfaces == PrepareInterfaces(built.cfg)
  IN /\ ~built.self.raised
     /\ DOMAIN built.self.tables = set
     /\ \A i, j \in 1..Len(interfaces) : i # j => interfaces[i] # interfaces[j]
     /\ \A k \in set : /\ Len(built.self.tables[k]) >= 3
                       /\ Interface(k).iid \in DOMAIN built.self.com_pointers

TypesInterned ==
  built.done =>
    /\ \A k \in DOMAIN built.self.tables :
         LET fields == FieldsOf(built.self.tables[k]) IN
           fields \in DOMAIN vtbl_types /\ built.self.vtbl[k] = vtbl_types[fields]
    /\ \A k1, k2 \in DOMAIN built.self.tables :
         FieldsOf(built.self.tables[k1]) = FieldsOf(built.self.tables[k2])
           => built.self.vtbl[k1] = built.self.vtbl[k2]

\* Slot Add of the object's ICalc table runs the method of the object's own
\* class, or the stub when the class has none.
OwnImplementations ==
  (slotcall.done /\ slotcall.itf \in {"ICalc", "ICalc2"} /\ slotcall.slot = 4) =>
    IF built.cfg.implemented
      THEN /\ slotcall.res.hr = S_OK
           /\ slotcall.res.outs[3] = Written(IntVal(slotcall.args[1] + slotcall.args[2]))
      ELSE slotcall.res.hr = E_NOTIMPL /\ ~slotcall.res.outs[3].written

\* An entry of the cache stays, with its type; a construction adds entries
\* only for fields of its tables that the cache did not hold.
CacheKept ==
  /\ \A f \in DOMAIN vtbl_types : f \in DOMAIN vtbl_types' /\ vtbl_types'[f] = vtbl_types[f]
  /\ \A f \in DOMAIN vtbl_types' \ DOMAIN vtbl_types :
       \E k \in DOMAIN built'.self.tables : f = FieldsOf(built'.self.tables[k])

\* C17: tables whose chains give the same ordered slots have the same table
\* type, the one the cache holds; the cache never drops or replaces an
\* entry; each object's slots run that object's own implementations.
C17_Interning == [](TypesInterned /\ OwnImplementations) /\ [][CacheKept]_vars

\* A second object whose dispinterface table has the type made for the
\* IDispatch table of an object of another class, and whose own slot ran the
\* stub although the earlier class implements the method.
C17_Witness ==
  /\ nbuilt = 2 /\ built.cfg.com_interfaces = <<"ICalc2", "DTestDispServer">>
  /\ ~built.cfg.implemented /\ built.earlier = {TRUE}
  /\ built.self.vtbl["DTestDispServer"].name = "IDispatch"
  /\ slotcall.done /\ slotcall.itf = "ICalc2" /\ slotcall.slot = 4
  /\ slotcall.res.hr = E_NOTIMPL

\* The slot of an accessor was called: the fourth slot of the table of itf
\* or of an interface deriving from it, or the fifth for GetGUID.
SlotCalled(itfs, j) == slotcall.done /\ slotcall.itf \in itfs /\ slotcall.slot = j

\* C18: through its slot, IPersist_GetClassID returns E_NOTIMPL when the
\* class has no _reg_clsid_, IProvideClassInfo_GetClassInfo returns E_NOTIMPL
\* when no type library is loaded, and IProvideClassInfo2_GetGUID returns
\* E_NOTIMPL when the class has no outgoing interfaces.
C18_NotImplemented ==
  /\ (SlotCalled({"IPersist"}, 4) /\ ~built.cfg.reg_clsid) => slotcall.res.hr = E_NOTIMPL
  /\ (SlotCalled({"IProvideClassInfo", "IProvideClassInfo2"}, 4) /\ ~built.cfg.reg_typelib)
       => slotcall.res.hr = E_NOTIMPL
  /\ (SlotCalled({"IProvideClassInfo2"}, 5) /\ ~built.cfg.outgoing)
       => slotcall.res.hr = E_NOTIMPL

\* The thread of run_mta leaves the handoff queue only while the server lock
\* count is zero.
StaysBlocked ==
  [][(lserver.pc = "get" /\ lserver'.pc # "get") => lserver.count = 0]_vars

\* Once an Unlock has brought the lock count to zero, the thread in run_mta
\* gets past its blocking call.
UnlockUnblocks ==
  (lserver.pc \in {"run_mta", "get"} /\ lserver.zeroed) ~> lserver.returned

\* The class objects are revoked only after the blocking call has returned.
RevokeAfterReturn == [](lserver.revoked => lserver.returned)

\* C19: in multi-threaded out-of-process hosting the thread in run_mta stays
\* blocked on the handoff queue while the lock count is nonzero, every Unlock
\* that brings the count to zero eventually unblocks it, and run revokes the
\* class objects only after the blocking call has returned.
C19_Handoff == StaysBlocked /\ UnlockUnblocks /\ RevokeAfterReturn

\* Neither map of any object changes in the step.
MapsFrozen == pointers' = pointers /\ invoke'.dispimpl = invoke.dispimpl

\* C20: after construction no operation adds, removes or replaces an entry
\* of _com_pointers_ or of _dispimpl_.
C20_MapsReadOnly == [][MapsFrozen]_vars

\* The step ends the Release of object o that brought the count to zero, and
\* leaves its table map empty.
ClearedByRelease(o) ==
  /\ DOMAIN pointers'[o] = {}
  /\ \E t \in Threads :
       /\ th[t].pc = "unlock" /\ th[t].cur = o /\ th[t].result = 0
       /\ th'[t].pc = "idle"
       /\ last' = Return("Release", t, o, "", 0, Unwritten)

\* C20, amended: _dispimpl_ never changes, and _com_pointers_ changes only
\* when the Release that brought the count to zero replaces it by an empty
\* map.
C20_MapsReadOnlyLive ==
  [][/\ invoke'.dispimpl = invoke.dispimpl
     /\ \A o \in Objects : pointers'[o] # pointers[o] => ClearedByRelease(o)]_vars

\* Invoke was served from a filled _dispimpl_, and the Release that returned
\* last has emptied the table map of its object.
C20_Witness ==
  /\ invoke.done /\ invoke.out.path = "called" /\ DOMAIN invoke.dispimpl # {}
  /\ ncalls >= 3
  /\ \E o \in Objects : DOMAIN pointers[o] = {} /\ last.op = "Release" /\ last.obj = o

\* ------------------------------------------------- tables of shared identities
\* The identities in the inheritance chain of interface k.
ChainOf(k) == Range(ChainIIDs(MroBaseFirst(k)))

\* The first interface of the list whose chain has the identity.
Containing(list, iid) == {i \in 1..Len(list) : iid \in ChainOf(list[i])}
Earliest(list, iid) ==
  list[CHOOSE i \in Containing(list, iid) : \A j \in Containing(list, iid) : i <= j]

\* C21: after construction every entry of _com_pointers_ points to the table
\* of the earliest interface, declared ones before added defaults, whose
\* chain has the identity; it points to a declared interface's table
\* whenever a declared interface has the identity.
C21_ExplicitFirst ==
  (built.done /\ ~built.self.raised) =>
    \A iid \in DOMAIN built.self.com_pointers :
      /\ Containing(PrepareInterfaces(built.cfg), iid) # {}
      /\ built.self.com_pointers[iid] = Earliest(PrepareInterfaces(built.cfg), iid)
      /\ Containing(built.cfg.com_interfaces, iid) # {} =>
           built.self.com_pointers[iid] = Earliest(built.cfg.com_interfaces, iid)

\* A class declares IDispatch and IProvideClassInfo2 and gets
\* IProvideClassInfo by default: IUnknown is answered by IDispatch's table
\* and IProvideClassInfo by the declared IProvideClassInfo2's.
C21_Witness ==
  /\ built.done /\ ~built.self.raised
  /\ built.cfg.com_interfaces = <<"IDispatch", "IProvideClassInfo2">>
  /\ "IProvideClassInfo" \in DOMAIN built.self.tables
  /\ built.self.com_pointers[IProvideClassInfo.iid] = "IProvideClassInfo2"
  /\ built.self.com_pointers[IUnknown.iid] = "IDispatch"

\* ------------------------------------------------- keys of the dispatch map
\* What the member of the invoked object is.
IsGetter(m) ==
  \/ m.what = "DISPPROPERTY"
  \/ m.what = "DISPMETHOD" /\ "propget" \in m.idlflags
IsPlainMethod(m) ==
  m.what = "DISPMETHOD" /\ m.idlflags \cap {"propget", "propput", "propputref"} = {}
IsSetter(m) ==
  \/ m.what = "DISPPROPERTY" /\ "readonly" \notin m.idlflags
  \/ m.what = "DISPMETHOD" /\ m.idlflags \cap {"propget", "propput"} = {"propput"}
IsRefSetter(m) ==
  m.what = "DISPMETHOD" /\ m.idlflags \cap {"propget", "propput", "propputref"} = {"propputref"}

BothKinds == DISPATCH_METHOD + DISPATCH_PROPERTYGET

\* The invocation kinds under which the member is registered.
KindsOf(m) ==
  (IF IsGetter(m) THEN {DISPATCH_PROPERTYGET, BothKinds} ELSE {})
    \cup (IF IsPlainMethod(m) THEN {DISPATCH_METHOD, BothKinds} ELSE {})
    \cup (IF IsSetter(m) THEN {DISPATCH_PROPERTYPUT} ELSE {})
    \cup (IF IsRefSetter(m) THEN {DISPATCH_PROPERTYPUTREF} ELSE {})

\* The keys of the map are the member's id with the given kinds, and the
\* combined key, where present, holds the callable of the getter or method.
KeysAre(kinds) ==
  /\ DOMAIN InvokeDispimpl = {<<invoke.member.dispid, k>> : k \in kinds}
  /\ \A k \in kinds \cap {DISPATCH_METHOD, DISPATCH_PROPERTYGET} :
       /\ <<invoke.member.dispid, BothKinds>> \in DOMAIN InvokeDispimpl
       /\ InvokeDispimpl[<<invoke.member.dispid, BothKinds>>] =
            InvokeDispimpl[<<invoke.member.dispid, k>>]

\* An invocation of the member's id finds a callable exactly under the kinds.
ResolvesUnder(kinds) ==
  (invoke.done /\ invoke.dispIdMember = invoke.member.dispid) =>
    (invoke.out.path = "called" <=> invoke.wFlags \in kinds)

\* C22: a getter and a plain method with id d are in the map under
\* (d, METHOD|PROPERTYGET), and a caller giving the method kind, the
\* property-get kind or both finds the same callable; a setter is only under
\* (d, PROPERTYPUT) and a reference-setter only under (d, PROPERTYPUTREF).
C22_CombinedKey ==
  invoke.has_disp =>
    /\ KeysAre(KindsOf(invoke.member))
    /\ ResolvesUnder(KindsOf(invoke.member)
                       \cup (IF IsGetter(invoke.member) \/ IsPlainMethod(invoke.member)
                               THEN {DISPATCH_METHOD, DISPATCH_PROPERTYGET, BothKinds}
                               ELSE {}))

\* C22, amended: a getter is found under the property-get kind and under
\* both flags, a plain method under the method kind and under both flags,
\* and neither under the other single kind.
C22_CombinedKeyOwnKind ==
  invoke.has_disp =>
    /\ KeysAre(KindsOf(invoke.member))
    /\ ResolvesUnder(KindsOf(invoke.member))

\* A caller giving both flags reached the callable of a property getter.
C22_Witness ==
  /\ invoke.done /\ invoke.has_disp /\ invoke.out.path = "called"
  /\ invoke.member.what = "DISPMETHOD" /\ invoke.member.idlflags = {"propget"}
  /\ invoke.wFlags = BothKinds /\ invoke.dispIdMember = invoke.member.dispid
  /\ invoke.out.kind # "stub"

\* ------------------------------------------------- native failures
\* The managed method raised COMError or WindowsError.
NativeFailure ==
  /\ adapted.called
  /\ ActualResult.exc \in {"COMError", "WindowsError"}

\* 0x80070000 as the native caller reads it.
FACILITY_WIN32_BITS == -2147024896

\* The code the claim gives for a failure: E_FAIL without a numeric code,
\* the code itself when bit 31 is set, else (c & 0xFFFF) | 0x80070000.
NormalizedCode(o) ==
  IF ~o.has_code THEN E_FAIL
  ELSE IF (o.code[1] \div 32768) % 2 = 1 THEN AsCLong(o.code)
  ELSE FACILITY_WIN32_BITS + o.code[2]

C23_WitnessNoCode ==
  /\ NativeFailure
  /\ adapted.adapter = "with_this"
  /\ ActualResult.exc = "WindowsError" /\ ~ActualResult.has_code
  /\ adapted.res.hr = E_FAIL

\* ================================================== claims: the resolver
Resolved == adapted.adapter # ""

\* The attributes of the instance that match a name: by equal spelling, or
\* by equal lower-cased spelling for a case-insensitive interface.
Matching(name) ==
  {a \in adapted.has :
     IF adapted.case_insensitive THEN Lower(a) = Lower(name) ELSE a = name}
QualifiedHits == Matching(Fq(N_DTestDispServer, adapted.member.mthname))
BareHits == Matching(adapted.member.mthname)

\* C24: the resolver takes the attribute named Interface_Member when there
\* is one, else the attribute named Member, else no method; for a
\* case-insensitive interface both names match whatever the letter case.
C24_QualifiedFirst ==
  Resolved =>
    /\ QualifiedHits # {} =>
         adapted.impl.target.kind = "method" /\ adapted.impl.target.name \in QualifiedHits
    /\ (QualifiedHits = {} /\ BareHits # {}) =>
         adapted.impl.target.kind = "method" /\ adapted.impl.target.name \in BareHits
    /\ (QualifiedHits = {} /\ BareHits = {}) => adapted.impl.target.kind # "method"

\* The instance has DTestDispServer_sEtNaMe and SetName: the member SetName
\* of the case-insensitive interface resolved to the first and was called.
C24_Witness ==
  /\ adapted.called /\ adapted.case_insensitive
  /\ adapted.member.mthname = N_SetName
  /\ adapted.has = {Fq(N_DTestDispServer, N_sEtNaMe), N_SetName}
  /\ adapted.impl.target.name = Fq(N_DTestDispServer, N_sEtNaMe)
  /\ adapted.res.hr = S_OK

\* No method implements the member.
NoMethod == QualifiedHits = {} /\ BareHits = {}
OneParameter == adapted.has_paramflags /\ Len(adapted.paramflags) = 1
IsProperty == adapted.member.idlflags \cap {"propget", "propput"} # {}

\* C25: resolving a member without implementation never raises; a property
\* getter or setter with exactly one declared parameter falls back to plain
\* attribute access on the property name, every other member gets the
\* not-implemented stub; and a fallback accessor whose attribute is missing
\* when it is called yields E_NOTIMPL.
C25_FallbackNeverThrows ==
  (Resolved /\ NoMethod) =>
    /\ adapted.adapter # "raise"
    /\ (IsProperty /\ OneParameter) =>
         /\ adapted.impl.target.kind \in {"getter", "setter"}
         /\ adapted.impl.target.name = adapted.member.prop
    /\ ~(IsProperty /\ OneParameter) => adapted.impl.kind = "stub"
    /\ (adapted.called /\ IsProperty /\ OneParameter /\ N_name \notin adapted.has) =>
         adapted.res.hr = E_NOTIMPL

\* ================================================== claims: the server lock
\* C26: the InprocServer lock count follows the registry, whenever the
\* server is installed: it is never negative (no Unlock without an earlier
\* Lock), and while no call is in progress it is the number of objects in
\* _instances_.
C26_LocksFollowRegistry ==
  /\ locks >= 0
  /\ (server # "none" /\ Quiescent) => locks = Cardinality(instances)

\* ================================================ claims: QueryInterface
\* Thread t's QueryInterface found the identity it asked for in this step.
QueryHit(t) == th[t].pc = "idle" /\ th'[t].pc = "copy"

\* A QueryInterface returned E_NOINTERFACE in this step.
QueryMiss ==
  /\ ncalls' # ncalls
  /\ th' = th
  /\ last'.op = "QueryInterface"

\* Thread t's CopyComPointer took its reference in this step.
Copied(t) == th[t].pc = "copy" /\ th'[t].pc # "copy"

\* Thread t's QueryInterface ran the first statement of __keep__ in this step.
QueryKept(t) == th[t].pc = "keep" /\ th[t].req # "" /\ th'[t].pc # "keep"

\* C27: a QueryInterface that finds the identity in _com_pointers_ takes one
\* reference: the count of the object goes up by exactly one, the object is
\* registered exactly when the count was zero, and the call returns S_OK
\* with the pointer found; one that does not find the identity returns
\* E_NOINTERFACE and leaves the count, the registry and the lock count of the
\* server as they were.
C27_CountedReference ==
  [][/\ \A t \in Threads :
          /\ QueryHit(t) =>
               /\ th'[t].req \in DOMAIN pointers[th'[t].cur]
               /\ refcnt' = refcnt /\ instances' = instances /\ locks' = locks
          /\ Copied(t) =>
               /\ refcnt' = [refcnt EXCEPT ![th[t].cur] = @ + 1]
               /\ (refcnt[th[t].cur] = 0) <=> (th'[t].pc = "keep")
               /\ th'[t].pc # "keep" =>
                    /\ last' = Return("QueryInterface", t, th[t].cur, th[t].req,
                                      S_OK, th[t].ptr)
                    /\ instances' = instances /\ locks' = locks
          /\ QueryKept(t) => th[t].cur \in instances'
     /\ QueryMiss =>
          /\ last'.ret = E_NOINTERFACE
          /\ last'.req \notin DOMAIN pointers[last'.obj]
          /\ refcnt' = refcnt /\ instances' = instances /\ locks' = locks
    ]_vars

\* A QueryInterface on an object nobody referenced has returned S_OK: the
\* count is one and the object is registered.
C27_Witness ==
  /\ Quiescent
  /\ last.op = "QueryInterface" /\ last.ret = S_OK
  /\ refcnt[last.obj] = 1 /\ last.obj \in instances
  /\ ncalls = 1

\* A QueryInterface for an identity the object lacks has returned, the object
\* referenced and registered as before.
C27_WitnessMiss ==
  /\ Quiescent
  /\ last.op = "QueryInterface" /\ last.ret = E_NOINTERFACE
  /\ refcnt[last.obj] = 1 /\ last.obj \in instances

\* ================================================ claims: the dispatch map
\* The dispinterfaces a class declares, in the order of declaration.
DeclaredDisp(cfg) == SelectSeq(cfg.com_interfaces, LAMBDA k : Interface(k).has_disp)

\* The member ids of a dispinterface.
MemberIds(k) ==
  {Interface(k).disp_methods[i].dispid : i \in 1..Len(Interface(k).disp_methods)}

\* The member ids that have an entry in a dispatch map.
MappedIds(dispimpl) == {key[1] : key \in DOMAIN dispimpl}

Constructed == built.done /\ ~built.self.raised /\ DeclaredDisp(built.cfg) # <<>>

\* C28: the dispatch map of an object holds the entries of one dispinterface
\* only, the one built last, which is the earliest-declared one; Invoke with
\* the id of a member of any other dispinterface of the class answers
\* DISP_E_MEMBERNOTFOUND without calling anything.
C28_LastBuiltOnly ==
  Constructed =>
    /\ MappedIds(built.self.dispimpl) = MemberIds(DeclaredDisp(built.cfg)[1])
    /\ (invoke.done /\ invoke.dispIdMember \notin MemberIds(DeclaredDisp(built.cfg)[1])) =>
         /\ invoke.out.path = "notfound"
         /\ invoke.out.hr = DISP_E_MEMBERNOTFOUND

\* An object of a class that declares DTestDispServerEvents before
\* DTestDispServer was asked for eval, a method of DTestDispServer, and
\* answered DISP_E_MEMBERNOTFOUND.
C28_Witness ==
  /\ built.done /\ ~built.self.raised
  /\ built.cfg.com_interfaces = <<"DTestDispServerEvents", "DTestDispServer">>
  /\ built.cfg.implemented
  /\ invoke.done /\ invoke.dispIdMember = 10 /\ invoke.wFlags = DISPATCH_METHOD
  /\ invoke.out.hr = DISP_E_MEMBERNOTFOUND
  /\ MappedIds(built.self.dispimpl) = {20, 21}

\* An object of a class that declares both dispinterfaces answered a member
\* of the earliest-declared one by calling its implementation.
C28_WitnessFound ==
  /\ built.done /\ Len(DeclaredDisp(built.cfg)) = 2
  /\ invoke.done /\ invoke.out.path = "called"

\* ============================================ claims: HRESULT_FROM_WIN32
\* C29: for None and for every unsigned 32-bit code, HRESULT_FROM_WIN32
\* gives a value with bit 31 set, which a native caller reads as a negative
\* HRESULT, and converting that value again gives the same value.
C29_FailureIdempotent ==
  /\ adapted.applied >= 1 =>
       /\ Bit31(adapted.once)
       /\ AsCLong(adapted.once) < 0
  /\ adapted.applied = 2 => adapted.twice = adapted.once

\* The Win32 code 5 was converted twice: 0x80070005 both times.
C29_Witness ==
  /\ adapted.applied = 2
  /\ ~adapted.is_none /\ adapted.errcode = <<0, 5>>
  /\ adapted.once = <<32775, 5>> /\ adapted.twice = <<32775, 5>>

\* None was converted twice: 0x80000000 both times.
C29_WitnessNone ==
  /\ adapted.applied = 2 /\ adapted.is_none
  /\ adapted.twice = <<32768, 0>>
====
